---- MODULE Spec2Model ----
(***************************************************************************)
(* Model of DocumentProcessor (app/services/unified_document_processor.py) *)
(* of genhealth-backend: the text-extraction cascade, the rubric           *)
(* confidence, AI validation with corrections, and the escalation to text  *)
(* and vision reanalysis inside process_document.                          *)
(*                                                                         *)
(* Scores are integers in hundredths (0.4 is 40, 0.7 is 70).  The rubric   *)
(* only ever adds 0.4, 0.4, 0.1, 0.2 in that order, and the floating-point *)
(* sums order exactly as the integer sums do, also against 0.6 and 0.7.    *)
(* Strings the code inspects are sequences of one-character strings.       *)
(* JSON values are records [t, s, n]: t is the JSON type, s the characters *)
(* of a string, n the number; t = "missing" stands for an absent dict key. *)
(***************************************************************************)
EXTENDS Integers, Sequences, FiniteSets, TLC

VARIABLES
    doc,                \* file_content: what each backend and the patterns find in it
    use_ai,             \* process_document's use_ai argument: "none", "true", "false"
    enable_ai,          \* self.enable_ai
    pc,                 \* stage of the run of process_document
    text,               \* local text
    ocr_method,         \* local ocr_method
    ocr_result,         \* local ocr_result
    final_result,       \* local final_result
    final_method,       \* local final_method
    final_confidence,   \* local final_confidence
    validation_summary, \* local validation_summary
    data_quality_score, \* local data_quality_score
    response,           \* the dict process_document returns
    attempts,           \* invocations of the _ai_* helpers in this run
    llm_calls,          \* calls of self.llm.ainvoke in this run
    result_source,      \* which assignment of process_document last set final_result
    v_pc,               \* position of the stand-alone _ai_validate_extracted_data call
    v_enable,           \* its self.enable_ai
    v_info,             \* its patient_info argument
    v_resp,             \* the reasoning service's answer to it
    v_out,              \* its return value
    e_pc,               \* position of the stand-alone _extract_text_from_pdf call
    e_doc,              \* what the three backends do with its file_content
    e_text,             \* its local text
    e_tried,            \* the backends it has invoked, in order
    e_ret,              \* what it returns or raises
    f_pc,               \* position of a call of one of the pure helpers
    f_arg,              \* the helper's argument
    f_ret,              \* the helper's return value
    t_run,              \* which of two successive calls of process_document is running
    t_first,            \* what the first of the two calls returned
    m_val,              \* the stubbed service: its answers to validation prompts so far
    m_text,             \* the stubbed service: its answer to the text-analysis prompt
    m_vision,           \* the stubbed service: its answer to the vision prompt
    minute_tracker,     \* usage_trackers[model]["minute"]; expired: now - last_reset > 60 s
    daily_tracker,      \* usage_trackers[model]["daily"]; expired: now - last_reset > 24 h
    call_pc,            \* position of each caller in rate_limited_llm_call
    call_estimated,     \* its estimated_tokens argument
    call_outcome,       \* how its call ended
    call_reserved,      \* what a call without result has left in each tracker's tokens_count
    calls_started,      \* calls of rate_limited_llm_call so far
    orders,             \* the rows of the orders table
    orders_before,      \* the rows before the last request was handled
    order_request,      \* the last order request
    order_status,       \* the HTTP status it was answered with
    users,              \* the rows of the users table, by username
    login_data,         \* the body of the last login request
    login_response,     \* status and detail (or token subject) of the answer to it
    cache_clock,        \* datetime.now(), in ticks
    memory_cache,       \* memory_cache._cache[cache_key], or NoEntry
    cache_file,         \* the pickle file of cache_key in cache_dir, or NoEntry
    stored_at,          \* when set_processing_result stored each result
    cache_got           \* what the last get_processing_result returned, and when

pvars == <<doc, use_ai, enable_ai, pc, text, ocr_method, ocr_result, final_result,
           final_method, final_confidence, validation_summary, data_quality_score,
           response, attempts, llm_calls, result_source>>
vvars == <<v_pc, v_enable, v_info, v_resp, v_out>>
evars == <<e_pc, e_doc, e_text, e_tried, e_ret>>
fvars == <<f_pc, f_arg, f_ret>>
tvars == <<t_run, t_first, m_val, m_text, m_vision>>
rvars == <<minute_tracker, daily_tracker, call_pc, call_estimated, call_outcome,
           call_reserved, calls_started>>
ovars == <<orders, orders_before, order_request, order_status>>
uvars == <<users, login_data, login_response>>
cvars == <<cache_clock, memory_cache, cache_file, stored_at, cache_got>>
vars == <<doc, use_ai, enable_ai, pc, text, ocr_method, ocr_result, final_result,
          final_method, final_confidence, validation_summary, data_quality_score,
          response, attempts, llm_calls, result_source,
          v_pc, v_enable, v_info, v_resp, v_out,
          e_pc, e_doc, e_text, e_tried, e_ret,
          f_pc, f_arg, f_ret,
          t_run, t_first, m_val, m_text, m_vision,
          minute_tracker, daily_tracker, call_pc, call_estimated, call_outcome,
          call_reserved, calls_started,
          orders, orders_before, order_request, order_status,
          users, login_data, login_response,
          cache_clock, memory_cache, cache_file, stored_at, cache_got>>

\* the variables an operation of one component leaves alone
not_p == <<vvars, evars, fvars, tvars, rvars, ovars, uvars, cvars>>
not_v == <<pvars, evars, fvars, tvars, rvars, ovars, uvars, cvars>>
not_e == <<pvars, vvars, fvars, tvars, rvars, ovars, uvars, cvars>>
not_f == <<pvars, vvars, evars, tvars, rvars, ovars, uvars, cvars>>
not_t == <<pvars, vvars, evars, fvars, rvars, ovars, uvars, cvars>>
not_pt == <<vvars, evars, fvars, rvars, ovars, uvars, cvars>>
not_r == <<pvars, vvars, evars, fvars, tvars, ovars, uvars, cvars>>
not_o == <<pvars, vvars, evars, fvars, tvars, rvars, uvars, cvars>>
not_u == <<pvars, vvars, evars, fvars, tvars, rvars, ovars, cvars>>
not_c == <<pvars, vvars, evars, fvars, tvars, rvars, ovars, uvars>>

----------------------------------------------------------------------------
(* Bounds *)

\* number of data_quality_score samples the reasoning service may answer
MaxDqs == 3
\* number of corrected_value samples the service may propose for last_name
MaxCorr == 3
\* number of field values the service may return from text/vision reanalysis
MaxAiVal == 3
\* the wall-clock readings a response can carry
MaxClock == 2
MaxElapsed == 1
\* number of last-name samples the rubric is applied to
MaxLast == 6
\* number of field samples the date strings are built from
MaxDateFields == 15
\* number of token samples that can follow a name label, and how many follow it
MaxTokens == 7
MaxNameLen == 3
\* callers of rate_limited_llm_call, calls they start in all, and the largest
\* token estimate and actual usage of a call
MaxCallers == 2
MaxCalls == 2
MaxEstimate == 3
MaxActual == 4
\* the limits configured for the model, scaled down
RequestsPerMinute == 1
TokensPerMinute == 5
RequestsPerDay == 2
TokensPerDay == 5
\* order ids the database hands out, and order numbers the clients use
MaxOrderId == 3
MaxOrderNumbers == 2
\* user names that sign up or log in, and the passwords they type
MaxUsers == 2
MaxPasswords == 2
\* dates of birth a client may send with a new order
MaxDobs == 6
\* the cache: default_ttl in clock ticks, the last clock reading, and the
\* results stored in all
DefaultTtl == 2
MaxCacheClock == 5
MaxCacheSets == 2

----------------------------------------------------------------------------
(* JSON values *)

JNull == [t |-> "null", s |-> <<>>, n |-> 0]
JMissing == [t |-> "missing", s |-> <<>>, n |-> 0]
JStr(str) == [t |-> "str", s |-> str, n |-> 0]
JNum(num) == [t |-> "num", s |-> <<>>, n |-> num]

\* Python truthiness of a JSON value (None, "", 0 are falsy)
Truthy(v) == \/ v.t = "str" /\ v.s # <<>>
             \/ v.t = "num" /\ v.n # 0

\* dict.get(key): an absent key reads as None
Get(v) == IF v.t = "missing" THEN JNull ELSE v

Fields == <<"first_name", "last_name", "date_of_birth">>

\* a dict without keys, also standing for None: falsy in Python
EmptyInfo == [first_name |-> JMissing, last_name |-> JMissing, date_of_birth |-> JMissing]
\* `not patient_info` on a dict or None
NotInfo(info) == \A i \in 1..Len(Fields) : info[Fields[i]].t = "missing"

sAnn == <<"A", "n", "n">>
sLee == <<"L", "e", "e">>
sSidney == <<"S", "i", "d", "n", "e", "y">>
sDAVID == <<"D", "A", "V", "I", "D">>
sLee7 == <<"L", "e", "e", "7">>
sRoe == <<"R", "o", "e">>
sDob == <<"0", "1", "/", "1", "5", "/", "1", "9", "8", "0">>

----------------------------------------------------------------------------
(* _calculate_confidence *)

Lower(c) ==
    CASE c = "A" -> "a" [] c = "B" -> "b" [] c = "C" -> "c" [] c = "D" -> "d"
      [] c = "E" -> "e" [] c = "F" -> "f" [] c = "G" -> "g" [] c = "H" -> "h"
      [] c = "I" -> "i" [] c = "J" -> "j" [] c = "K" -> "k" [] c = "L" -> "l"
      [] c = "M" -> "m" [] c = "N" -> "n" [] c = "O" -> "o" [] c = "P" -> "p"
      [] c = "Q" -> "q" [] c = "R" -> "r" [] c = "S" -> "s" [] c = "T" -> "t"
      [] c = "U" -> "u" [] c = "V" -> "v" [] c = "W" -> "w" [] c = "X" -> "x"
      [] c = "Y" -> "y" [] c = "Z" -> "z" [] OTHER -> c

LowerStr(str) == [i \in 1..Len(str) |-> Lower(str[i])]

IsDigit(c) == c \in {"0", "1", "2", "3", "4", "5", "6", "7", "8", "9"}

HasSub(str, sub) ==
    \E i \in 1..(Len(str) - Len(sub) + 1) : SubSeq(str, i, i + Len(sub) - 1) = sub

ArtifactSearchCaseSensitive(str) ==
    \/ \E i \in 1..Len(str) : IsDigit(str[i])
    \/ HasSub(str, <<"p", "e", "r", "s", "o", "n">>)
    \/ HasSub(str, <<"n", "u", "m", "b", "e", "r">>)
    \/ HasSub(str, <<"i", "d">>)

\* re.search(r'\d|person|number|id', last_name.lower())
ArtifactSearch(str) ==
    LET low == LowerStr(str) IN
    \/ \E i \in 1..Len(low) : IsDigit(low[i])
    \/ HasSub(low, <<"p", "e", "r", "s", "o", "n">>)
    \/ HasSub(low, <<"n", "u", "m", "b", "e", "r">>)
    \/ HasSub(low, <<"i", "d">>)

Min(a, b) == IF a < b THEN a ELSE b
Max(a, b) == IF a > b THEN a ELSE b

\* last_name.lower() raises AttributeError unless last_name is a str
ConfidenceRaises(info) ==
    /\ ~NotInfo(info)
    /\ Truthy(Get(info.last_name))
    /\ Get(info.last_name).t # "str"

CalculateConfidenceNoClamp(info) ==
    IF NotInfo(info) THEN 0
    ELSE (IF Truthy(Get(info.first_name)) THEN 40 ELSE 0)
       + (IF Truthy(Get(info.last_name))
          THEN 40 + (IF ~ArtifactSearch(Get(info.last_name).s) THEN 10 ELSE 0)
          ELSE 0)
       + (IF Truthy(Get(info.date_of_birth)) THEN 20 ELSE 0)

\* defined where ConfidenceRaises(info) is false
CalculateConfidence(info) ==
    IF NotInfo(info) THEN 0
    ELSE Min((IF Truthy(Get(info.first_name)) THEN 40 ELSE 0)
           + (IF Truthy(Get(info.last_name))
              THEN 40 + (IF ~ArtifactSearch(Get(info.last_name).s) THEN 10 ELSE 0)
              ELSE 0)
           + (IF Truthy(Get(info.date_of_birth)) THEN 20 ELSE 0), 100)

----------------------------------------------------------------------------
(* _ai_validate_extracted_data *)

\* one entry of validation_results; t = "missing": key absent, t = "null": JSON null
FieldValidation(cv, iss) ==
    [t |-> "dict", is_valid |-> TRUE, confidence |-> 90, issues |-> iss, corrected_value |-> cv]
MissingFV ==
    [t |-> "missing", is_valid |-> TRUE, confidence |-> 0, issues |-> <<>>, corrected_value |-> JMissing]
NullFV ==
    [t |-> "null", is_valid |-> TRUE, confidence |-> 0, issues |-> <<>>, corrected_value |-> JMissing]

\* validation_result.get("validation_results", {}) of an answer without the key
EmptyVR == [t |-> "dict", first_name |-> MissingFV, last_name |-> MissingFV,
            date_of_birth |-> MissingFV]
NullVR == [t |-> "null", first_name |-> MissingFV, last_name |-> MissingFV,
           date_of_birth |-> MissingFV]

\* validation_result.get("overall_validation", {}) of an answer without the key
EmptyOV == [t |-> "dict", overall_confidence |-> JMissing, data_quality_score |-> JMissing,
            validation_summary |-> "", recommendations |-> <<>>]
NullOV == [t |-> "null", overall_confidence |-> JMissing, data_quality_score |-> JMissing,
           validation_summary |-> "", recommendations |-> <<>>]
OverallValidation(dqs) ==
    [t |-> "dict", overall_confidence |-> JNum(90), data_quality_score |-> dqs,
     validation_summary |-> "ok", recommendations |-> <<>>]

\* answers of the reasoning service: the call raises, the text is not JSON, the
\* text is JSON but not an object, or it is an object
ValResponse(kind, vr, ov) == [kind |-> kind, vr |-> vr, ov |-> ov]

ParseErrorIssue == "Unable to validate due to parsing error"
FallbackFV ==
    [t |-> "dict", is_valid |-> TRUE, confidence |-> 50, issues |-> <<ParseErrorIssue>>,
     corrected_value |-> JMissing]
\* the fallback validation result built when json.loads fails
FallbackValidation ==
    [kind |-> "obj",
     vr |-> [t |-> "dict", first_name |-> FallbackFV, last_name |-> FallbackFV,
             date_of_birth |-> FallbackFV],
     ov |-> [t |-> "dict", overall_confidence |-> JNum(50), data_quality_score |-> JNum(50),
             validation_summary |-> "Validation failed due to response parsing error",
             recommendations |-> <<"Manual review recommended due to validation error">>]]

\* validation_summary = None, in the shape of a summary
NoSummary == [validation_performed |-> FALSE, validation_results |-> EmptyVR,
              overall_validation |-> EmptyOV, corrections_applied |-> <<>>]

\* the value _ai_validate_extracted_data returns; none = TRUE stands for None
NoValidation(called) ==
    [none |-> TRUE, called |-> called, corrected_patient_info |-> EmptyInfo,
     validation_summary |-> NoSummary]

ShouldCorrectNonNull(cv, original) == cv.t # "null" /\ cv # original

\* if corrected_value and corrected_value != patient_info.get(field)
ShouldCorrect(cv, original) == Truthy(cv) /\ cv # original

\* the CorrectionApplied records of one field: one or none
CorrectionOf(field, fv, info) ==
    LET cv == Get(fv.corrected_value) IN
    IF ShouldCorrect(cv, Get(info[field]))
    THEN <<[field |-> field, original |-> Get(info[field]), corrected |-> cv,
            reason |-> fv.issues]>>
    ELSE <<>>

AiValidateExtractedData(enable, info, resp) ==
    IF ~enable \/ NotInfo(info) THEN NoValidation(FALSE)
    ELSE IF resp.kind = "raise" THEN NoValidation(TRUE)
    ELSE
      LET validation_result == IF resp.kind = "unparseable" THEN FallbackValidation ELSE resp
          vr == validation_result.vr
          ov == validation_result.ov
      IN
      \* .get on a parsed value that is not a dict, on a null validation_results or
      \* on a null field entry raises AttributeError, caught by the outer except
      IF \/ resp.kind = "nonobj"
         \/ vr.t # "dict"
         \/ \E i \in 1..Len(Fields) : vr[Fields[i]].t = "null"
      THEN NoValidation(TRUE)
      ELSE
        [none |-> FALSE,
         called |-> TRUE,
         corrected_patient_info |->
            [f \in {"first_name", "last_name", "date_of_birth"} |->
                IF ShouldCorrect(Get(vr[f].corrected_value), Get(info[f]))
                THEN Get(vr[f].corrected_value) ELSE info[f]],
         validation_summary |->
            [validation_performed |-> TRUE,
             validation_results |-> vr,
             overall_validation |-> ov,
             corrections_applied |->
                CorrectionOf("first_name", vr.first_name, info)
                \o CorrectionOf("last_name", vr.last_name, info)
                \o CorrectionOf("date_of_birth", vr.date_of_birth, info)]]

----------------------------------------------------------------------------
(* _ai_text_analysis, _ai_vision_analysis *)

\* answers to a reanalysis request: kind as for validation, plus "render_fail"
\* when _pdf_to_base64_image raises before the vision call is made
AiResponse(kind, info) == [kind |-> kind, info |-> info]

NoAnalysis(called) == [none |-> TRUE, called |-> called, info |-> EmptyInfo]

\* result.get(field) for the three fields
AnalysisResult(resp) ==
    [none |-> FALSE, called |-> TRUE,
     info |-> [f \in {"first_name", "last_name", "date_of_birth"} |-> Get(resp.info[f])]]

AiTextAnalysis(enable, resp) ==
    IF ~enable THEN NoAnalysis(FALSE)
    ELSE IF resp.kind \in {"raise", "unparseable", "nonobj"} THEN NoAnalysis(TRUE)
    ELSE AnalysisResult(resp)

AiVisionAnalysis(enable, resp) ==
    IF ~enable THEN NoAnalysis(FALSE)
    ELSE IF resp.kind = "render_fail" THEN NoAnalysis(FALSE)
    ELSE IF resp.kind \in {"raise", "unparseable", "nonobj"} THEN NoAnalysis(TRUE)
    ELSE AnalysisResult(resp)

----------------------------------------------------------------------------
(* _extract_text_from_pdf *)

\* What one backend does with the bytes: the page texts it yields (a page is
\* "txt" when it has non-blank text, "ws" when blank but non-empty; empty page
\* texts are skipped by the code) before it finishes or raises with msg.
Outcome(pages, raised, msg) == [pages |-> pages, raised |-> raised, msg |-> msg]

\* the text contributed by a backend: one token per page, tagged with its source
Tokens(src, pages) == [i \in 1..Len(pages) |-> [src |-> src, kind |-> pages[i]]]

\* text.strip() is non-empty
StripNonEmpty(t) == \E i \in 1..Len(t) : t[i].kind = "txt"

Extracted(t, method) == [ok |-> TRUE, text |-> t, method |-> method, error |-> ""]
ExtractionError(err) == [ok |-> FALSE, text |-> <<>>, method |-> "none", error |-> err]

ExtractTextFromPdf(d) ==
    LET text1 == Tokens("pdfplumber", d.pl.pages)
        text2 == text1 \o Tokens("pypdf2", d.py.pages)
    IN
    IF ~d.pl.raised /\ StripNonEmpty(text1) THEN Extracted(text1, "pdfplumber")
    ELSE IF ~d.py.raised /\ StripNonEmpty(text2) THEN Extracted(text2, "pypdf2")
    ELSE IF ~d.ocr.raised
         THEN LET text3 == Tokens("tesseract", d.ocr.pages) IN
              IF StripNonEmpty(text3) THEN Extracted(text3, "tesseract")
              ELSE ExtractionError("Could not extract text from PDF")
    ELSE IF d.ocr.msg = "tesseract"
         THEN ExtractionError("Could not extract text from PDF. Please install Tesseract OCR")
    ELSE IF ~StripNonEmpty(text2) THEN ExtractionError("Could not extract text from PDF")
    ELSE Extracted(text2, "none")

----------------------------------------------------------------------------
(* Inputs of process_document *)

NoPages == Outcome(<<>>, FALSE, "")
OnePage == Outcome(<<"txt">>, FALSE, "")
Broken == Outcome(<<>>, TRUE, "other")
BrokenAfterPage == Outcome(<<"txt">>, TRUE, "other")
NoTesseract == Outcome(<<>>, TRUE, "tesseract")

\* what the three backends do with the bytes
ExtractionCases ==
    { [pl |-> OnePage, py |-> OnePage, ocr |-> OnePage],
      [pl |-> NoPages, py |-> OnePage, ocr |-> OnePage],
      [pl |-> Broken, py |-> Broken, ocr |-> OnePage],
      [pl |-> NoPages, py |-> NoPages, ocr |-> NoPages],
      [pl |-> Outcome(<<"ws">>, FALSE, ""), py |-> NoPages, ocr |-> Broken],
      [pl |-> NoPages, py |-> NoPages, ocr |-> NoTesseract],
      [pl |-> BrokenAfterPage, py |-> NoPages, ocr |-> OnePage],
      [pl |-> BrokenAfterPage, py |-> Broken, ocr |-> Broken] }

\* what _extract_patient_name_ocr and _extract_date_of_birth find in the text:
\* a last name is only ever found together with a first name
OcrFields ==
    { [first_name |-> f, last_name |-> l, date_of_birth |-> d] :
        f \in {JNull, JStr(sAnn)}, l \in {JNull, JStr(sLee), JStr(sSidney)},
        d \in {JNull, JStr(sDob)} }
    \ { [first_name |-> JNull, last_name |-> l, date_of_birth |-> d] :
        l \in {JStr(sLee), JStr(sSidney)}, d \in {JNull, JStr(sDob)} }

DefaultFields == [first_name |-> JStr(sAnn), last_name |-> JStr(sLee), date_of_birth |-> JNull]
DefaultCase == [pl |-> OnePage, py |-> OnePage, ocr |-> OnePage]

MakeDoc(c, f) == [pl |-> c.pl, py |-> c.py, ocr |-> c.ocr, fields |-> f]

Docs == { MakeDoc(DefaultCase, f) : f \in OcrFields }
        \cup { MakeDoc(c, DefaultFields) : c \in ExtractionCases }

\* data_quality_score values the service may answer, in hundredths
DqsSamples == <<50, 65, 90, 60, 70, 0>>
\* corrected_value values the service may propose for last_name
CorrSamples == <<JStr(sDAVID), JStr(sRoe), JNum(5), JStr(<<>>), JStr(sLee7)>>
\* field values the service may return from text or vision reanalysis
AiValSamples == <<JStr(sRoe), JNull, JNum(7), JStr(sLee7), JStr(<<>>)>>

Prefix(samples, k) == { samples[i] : i \in 1..Min(k, Len(samples)) }

DqsValues == {JMissing, JNull} \cup { JNum(q) : q \in Prefix(DqsSamples, MaxDqs) }

CorrectingVRs ==
    { [t |-> "dict",
       first_name |-> FieldValidation(c1, <<>>),
       last_name |-> FieldValidation(c2, <<"ocr artifact">>),
       date_of_birth |-> MissingFV] :
        c1 \in {JNull, JStr(sAnn)}, c2 \in {JMissing} \cup Prefix(CorrSamples, MaxCorr) }

\* the answers of the reasoning service to a validation request
ValResponses ==
    { ValResponse(k, EmptyVR, EmptyOV) : k \in {"raise", "unparseable", "nonobj"} }
    \cup { ValResponse("obj", vr, ov) :
             vr \in CorrectingVRs \cup {NullVR}
                    \cup {[t |-> "dict", first_name |-> MissingFV, last_name |-> NullFV,
                           date_of_birth |-> MissingFV]},
             ov \in {NullOV} \cup { OverallValidation(q) : q \in DqsValues } }

\* the answers of the reasoning service to a text or vision reanalysis request
AiInfos ==
    { [first_name |-> f, last_name |-> l, date_of_birth |-> d] :
        f \in Prefix(AiValSamples, MaxAiVal), l \in Prefix(AiValSamples, MaxAiVal),
        d \in {JMissing, JStr(sDob)} }
TextResponses ==
    { AiResponse(k, EmptyInfo) : k \in {"raise", "unparseable", "nonobj"} }
    \cup { AiResponse("obj", i) : i \in AiInfos }
VisionResponses == TextResponses \cup {AiResponse("render_fail", EmptyInfo)}

----------------------------------------------------------------------------
(* process_document *)

NoResponse == [success |-> FALSE, message |-> "", patient_info |-> EmptyInfo,
               extracted_text |-> <<>>, processing_time_ms |-> 0,
               extraction_method |-> <<>>, confidence_score |-> 0,
               timestamp |-> 0, ai_validation |-> NoSummary]

\* datetime.utcnow() and the elapsed milliseconds, as the wall clock gives them
Clock == 1..MaxClock
Elapsed == 0..MaxElapsed

\* the dict of the except branch; patient_info and extracted_text are None
FailureResponse(err, now, elapsed) ==
    [success |-> FALSE, message |-> err, patient_info |-> EmptyInfo,
     extracted_text |-> <<>>, processing_time_ms |-> elapsed,
     extraction_method |-> <<"error">>, confidence_score |-> 0,
     timestamp |-> now, ai_validation |-> NoSummary]

UseAiIgnoringOverride == enable_ai

\* use_ai if use_ai is not None else self.enable_ai
UseAiForThisCall == IF use_ai = "none" THEN enable_ai ELSE use_ai = "true"

NoCalls == [validate |-> 0, text |-> 0, vision |-> 0]
Count(c, k, called) == IF called THEN [c EXCEPT ![k] = @ + 1] ELSE c

MergeConfidenceCorrectedOnly(corrected_confidence, current) == corrected_confidence

\* final_confidence = max(corrected_confidence, final_confidence)
MergeConfidence(corrected_confidence, current) == Max(corrected_confidence, current)

AdoptsOnTie(new_confidence, current) == new_confidence >= current

\* self._calculate_confidence(ai_result) > final_confidence
Adopts(new_confidence, current) == new_confidence > current

TextGateAsVision(q) == q < 60

\* if data_quality_score < 0.7
TextGate(q) == q < 70

VisionGateAsText(q) == q < 70

\* elif data_quality_score < 0.6
VisionGate(q) == q < 60

StageAfterTextRetry == "Validated"

\* the stage reached once text reanalysis has been attempted
StageAfterText == "TextReanalyzed"

TextMethod == <<"ai_text_enhanced">>
VisionMethod == <<"ai_vision_enhanced">>

\* no run of process_document is in progress
PipelineIdle ==
    /\ doc = MakeDoc(DefaultCase, DefaultFields)
    /\ use_ai = "none"
    /\ enable_ai = FALSE
    /\ pc = "Idle"
    /\ text = <<>>
    /\ ocr_method = "none"
    /\ ocr_result = EmptyInfo
    /\ final_result = EmptyInfo
    /\ final_method = <<>>
    /\ final_confidence = 0
    /\ validation_summary = NoSummary
    /\ data_quality_score = 0
    /\ response = NoResponse
    /\ attempts = NoCalls
    /\ llm_calls = NoCalls
    /\ result_source = "unset"

\* no stand-alone call of _ai_validate_extracted_data is in progress
ValidateIdle ==
    /\ v_pc = "idle"
    /\ v_enable = FALSE
    /\ v_info = EmptyInfo
    /\ v_resp = ValResponse("raise", EmptyVR, EmptyOV)
    /\ v_out = NoValidation(FALSE)

\* no stand-alone call of _extract_text_from_pdf is in progress
ExtractIdle ==
    /\ e_pc = "idle"
    /\ e_doc = DefaultCase
    /\ e_text = <<>>
    /\ e_tried = <<>>
    /\ e_ret = ExtractionError("")

\* no call of a pure helper is in progress
HelperIdle ==
    /\ f_pc = "idle"
    /\ f_arg = <<>>
    /\ f_ret = <<>>

TwiceIdle ==
    /\ t_run = 0
    /\ t_first = NoResponse
    /\ m_val = {}
    /\ m_text = {}
    /\ m_vision = {}


LimiterIdle ==
    /\ minute_tracker = [requests_count |-> 0, tokens_count |-> 0, expired |-> FALSE]
    /\ daily_tracker = [requests_count |-> 0, tokens_count |-> 0, expired |-> FALSE]
    /\ call_pc = <<>>
    /\ call_estimated = <<>>
    /\ call_outcome = <<>>
    /\ call_reserved = <<>>
    /\ calls_started = 0


OrdersIdle ==
    /\ orders = {}
    /\ orders_before = {}
    /\ order_request = [op |-> "none", order_id |-> 0, order_number |-> "", status |-> ""]
    /\ order_status = 0


UsersIdle ==
    /\ users = <<>>
    /\ login_data = [username_or_email |-> "", password |-> ""]
    /\ login_response = [status_code |-> 0, detail |-> ""]


CacheIdle ==
    /\ cache_clock = 0
    /\ memory_cache = [value |-> 0, time |-> 0]
    /\ cache_file = [value |-> 0, time |-> 0]
    /\ stored_at = <<>>
    /\ cache_got = [value |-> 0, at |-> 0, layer |-> "none"]


Init ==
    /\ doc \in Docs
    /\ use_ai \in {"none", "true", "false"}
    /\ enable_ai \in BOOLEAN
    /\ pc = "Start"
    /\ text = <<>>
    /\ ocr_method = "none"
    /\ ocr_result = EmptyInfo
    /\ final_result = EmptyInfo
    /\ final_method = <<>>
    /\ final_confidence = 0
    /\ validation_summary = NoSummary
    /\ data_quality_score = 0
    /\ response = NoResponse
    /\ attempts = NoCalls
    /\ llm_calls = NoCalls
    /\ result_source = "unset"
    /\ ValidateIdle
    /\ ExtractIdle
    /\ HelperIdle
    /\ TwiceIdle
    /\ LimiterIdle
    /\ OrdersIdle
    /\ UsersIdle
    /\ CacheIdle

\* except Exception as e: the failure dict is returned; the locals are dead
Fail(err) ==
    /\ \E now \in Clock, elapsed \in Elapsed :
          response' = FailureResponse(err, now, elapsed)
    /\ pc' = "Done"
    /\ UNCHANGED <<text, ocr_method, ocr_result, final_result, final_method,
                   final_confidence, validation_summary, data_quality_score,
                   result_source>>

\* Step 1: text, ocr_method = await self._extract_text_from_pdf(file_content)
ExtractText ==
    /\ pc = "Start"
    /\ LET r == ExtractTextFromPdf(doc) IN
       IF r.ok
       THEN /\ text' = r.text
            /\ ocr_method' = r.method
            /\ pc' = "Extracted"
            /\ UNCHANGED <<ocr_result, final_result, final_method, final_confidence,
                           validation_summary, data_quality_score, response,
                           result_source>>
       ELSE Fail(r.error)
    /\ UNCHANGED <<doc, use_ai, enable_ai, attempts, llm_calls>>
    /\ UNCHANGED not_p

SummaryAtStartStale(previous) == previous

\* validation_summary = None: every call starts without a summary
SummaryAtStart(previous) == NoSummary

\* Step 2 and the initialisation of step 3: pattern extraction and first score
ExtractFields ==
    /\ pc = "Extracted"
    /\ ocr_result' = doc.fields
    /\ final_result' = doc.fields
    /\ result_source' = "ocr"
    /\ final_method' = <<"ocr", ocr_method>>
    /\ final_confidence' = CalculateConfidence(doc.fields)
    /\ validation_summary' = SummaryAtStart(validation_summary)
    /\ pc' = "Scored"
    /\ UNCHANGED <<doc, use_ai, enable_ai, text, ocr_method, data_quality_score,
                   response, attempts, llm_calls>>
    /\ UNCHANGED not_p

\* Step 3: AI validation of the OCR result, and the quality value of step 4
ValidateStep(resp) ==
    /\ pc = "Scored"
    /\ UseAiForThisCall /\ enable_ai
    /\ LET v == AiValidateExtractedData(enable_ai, ocr_result, resp)
            corrected_info == v.corrected_patient_info
            summary == IF v.none THEN validation_summary ELSE v.validation_summary
            confidence == IF v.none THEN final_confidence
                          ELSE MergeConfidence(CalculateConfidence(corrected_info),
                                               final_confidence)
            \* validation_summary.get("overall_validation", {}) if validation_summary else {}
            overall_validation == IF summary = NoSummary THEN EmptyOV
                                  ELSE summary.overall_validation
            \* overall_validation.get("data_quality_score", final_confidence)
            quality == IF overall_validation.data_quality_score.t = "missing"
                       THEN JNum(confidence)
                       ELSE overall_validation.data_quality_score
        IN
        /\ attempts' = Count(attempts, "validate", TRUE)
        /\ llm_calls' = Count(llm_calls, "validate", v.called)
        /\ IF ~v.none /\ ConfidenceRaises(corrected_info)
           THEN Fail("'int' object has no attribute 'lower'")
           ELSE IF overall_validation.t # "dict"
           THEN Fail("'NoneType' object has no attribute 'get'")
           ELSE IF quality.t # "num"
           THEN Fail("'<' not supported between instances of 'NoneType' and 'float'")
           ELSE /\ validation_summary' = summary
                /\ final_result' = IF v.none THEN final_result ELSE corrected_info
                /\ result_source' = IF v.none THEN result_source ELSE "validation"
                /\ final_confidence' = confidence
                /\ final_method' = IF v.none THEN final_method
                                   ELSE <<"ocr", ocr_method, "ai_validated">>
                /\ data_quality_score' = quality.n
                /\ pc' = "Validated"
                /\ UNCHANGED <<text, ocr_method, ocr_result, response>>
    /\ UNCHANGED <<doc, use_ai, enable_ai>>

Validate ==
    /\ \E resp \in ValResponses : ValidateStep(resp)
    /\ UNCHANGED not_p

\* Step 4, first branch: ai_result = await self._ai_text_analysis(text)
TextReanalyzeStep(resp) ==
    /\ pc = "Validated"
    /\ TextGate(data_quality_score)
    /\ LET a == AiTextAnalysis(enable_ai, resp) IN
        /\ attempts' = Count(attempts, "text", TRUE)
        /\ llm_calls' = Count(llm_calls, "text", a.called)
        /\ IF ~a.none /\ ConfidenceRaises(a.info)
           THEN Fail("'int' object has no attribute 'lower'")
           ELSE /\ IF ~a.none /\ Adopts(CalculateConfidence(a.info), final_confidence)
                   THEN /\ final_result' = a.info
                        /\ result_source' = "text"
                        /\ final_method' = TextMethod
                        /\ final_confidence' = CalculateConfidence(a.info)
                   ELSE UNCHANGED <<final_result, final_method, final_confidence,
                                    result_source>>
                /\ pc' = StageAfterText
                /\ UNCHANGED <<text, ocr_method, ocr_result, validation_summary,
                               data_quality_score, response>>
    /\ UNCHANGED <<doc, use_ai, enable_ai>>

TextReanalyze ==
    /\ \E resp \in TextResponses : TextReanalyzeStep(resp)
    /\ UNCHANGED not_p

\* enhanced_validation = await self._ai_validate_extracted_data(text, ai_result)
TextRevalidateStep(resp) ==
    /\ pc = "TextReanalyzed"
    /\ final_method = TextMethod
    /\ LET v == AiValidateExtractedData(enable_ai, final_result, resp) IN
        /\ attempts' = Count(attempts, "validate", TRUE)
        /\ llm_calls' = Count(llm_calls, "validate", v.called)
        /\ validation_summary' = IF v.none THEN validation_summary ELSE v.validation_summary
    /\ pc' = "TextRevalidated"
    /\ UNCHANGED <<doc, use_ai, enable_ai, text, ocr_method, ocr_result, final_result,
                   final_method, final_confidence, data_quality_score, response,
                   result_source>>

TextRevalidate ==
    /\ \E resp \in ValResponses : TextRevalidateStep(resp)
    /\ UNCHANGED not_p

\* Step 4, elif branch: vision_result = await self._ai_vision_analysis(file_content)
VisionReanalyzeStep(resp) ==
    /\ pc = "TextReanalyzed"
    /\ final_method # TextMethod
    /\ VisionGate(data_quality_score)
    /\ LET a == AiVisionAnalysis(enable_ai, resp) IN
        /\ attempts' = Count(attempts, "vision", TRUE)
        /\ llm_calls' = Count(llm_calls, "vision", a.called)
        /\ IF ~a.none /\ ConfidenceRaises(a.info)
           THEN Fail("'int' object has no attribute 'lower'")
           ELSE /\ IF ~a.none /\ Adopts(CalculateConfidence(a.info), final_confidence)
                   THEN /\ final_result' = a.info
                        /\ result_source' = "vision"
                        /\ final_method' = VisionMethod
                        /\ final_confidence' = CalculateConfidence(a.info)
                   ELSE UNCHANGED <<final_result, final_method, final_confidence,
                                    result_source>>
                /\ pc' = "VisionReanalyzed"
                /\ UNCHANGED <<text, ocr_method, ocr_result, validation_summary,
                               data_quality_score, response>>
    /\ UNCHANGED <<doc, use_ai, enable_ai>>

VisionReanalyze ==
    /\ \E resp \in VisionResponses : VisionReanalyzeStep(resp)
    /\ UNCHANGED not_p

\* vision_validation = await self._ai_validate_extracted_data(text, vision_result)
VisionRevalidateStep(resp) ==
    /\ pc = "VisionReanalyzed"
    /\ final_method = VisionMethod
    /\ LET v == AiValidateExtractedData(enable_ai, final_result, resp) IN
        /\ attempts' = Count(attempts, "validate", TRUE)
        /\ llm_calls' = Count(llm_calls, "validate", v.called)
        /\ validation_summary' = IF v.none THEN validation_summary ELSE v.validation_summary
    /\ pc' = "VisionRevalidated"
    /\ UNCHANGED <<doc, use_ai, enable_ai, text, ocr_method, ocr_result, final_result,
                   final_method, final_confidence, data_quality_score, response,
                   result_source>>

VisionRevalidate ==
    /\ \E resp \in ValResponses : VisionRevalidateStep(resp)
    /\ UNCHANGED not_p

\* the run has no escalation step left to take
ReadyToAssemble ==
    \/ pc = "Scored" /\ ~(UseAiForThisCall /\ enable_ai)
    \/ pc = "Validated" /\ ~TextGate(data_quality_score)
    \/ pc = "TextReanalyzed" /\ final_method # TextMethod /\ ~VisionGate(data_quality_score)
    \/ pc = "TextRevalidated"
    \/ pc = "VisionReanalyzed" /\ final_method # VisionMethod
    \/ pc = "VisionRevalidated"

\* Prepare response with validation information, return response
Assemble ==
    /\ ReadyToAssemble
    /\ \E now \in Clock, elapsed \in Elapsed :
          response' = [success |-> TRUE, message |-> "Document processed successfully",
                       patient_info |-> final_result, extracted_text |-> text,
                       processing_time_ms |-> elapsed,
                       extraction_method |-> final_method,
                       confidence_score |-> final_confidence,
                       timestamp |-> now,
                       ai_validation |-> validation_summary]
    /\ pc' = "Done"
    /\ UNCHANGED <<doc, use_ai, enable_ai, text, ocr_method, ocr_result, final_result,
                   final_method, final_confidence, validation_summary,
                   data_quality_score, attempts, llm_calls, result_source>>
    /\ UNCHANGED not_p

Next ==
    \/ ExtractText
    \/ ExtractFields
    \/ Validate
    \/ TextReanalyze
    \/ TextRevalidate
    \/ VisionReanalyze
    \/ VisionRevalidate
    \/ Assemble

Spec == Init /\ [][Next]_vars

----------------------------------------------------------------------------
(* A single call of _ai_validate_extracted_data, with its inputs and answer *)

\* number of corrected_value samples the service may propose in the single call
MaxVCorr == 4

VCorrSamples == <<JNull, JStr(sAnn), JStr(sLee), JStr(<<>>), JNum(5), JStr(sDob), JNum(0)>>

VInfos ==
    {EmptyInfo}
    \cup { [first_name |-> f, last_name |-> l, date_of_birth |-> d] :
             f \in {JNull, JStr(sAnn)}, l \in {JNull, JStr(sLee), JStr(sLee7)},
             d \in {JNull, JStr(sDob)} }

VFieldValidations ==
    {MissingFV, NullFV}
    \cup { FieldValidation(cv, <<"checked against the text">>) : cv \in Prefix(VCorrSamples, MaxVCorr) }

VResponses ==
    { ValResponse(k, EmptyVR, EmptyOV) : k \in {"raise", "unparseable", "nonobj"} }
    \cup { ValResponse("obj", NullVR, EmptyOV) }
    \cup { ValResponse("obj",
                       [t |-> "dict", first_name |-> a, last_name |-> b, date_of_birth |-> c],
                       ov) :
             a \in VFieldValidations, b \in VFieldValidations, c \in VFieldValidations,
             ov \in {EmptyOV, NullOV, OverallValidation(JNum(90))} }

InitValidate ==
    /\ PipelineIdle
    /\ ExtractIdle
    /\ HelperIdle
    /\ TwiceIdle
    /\ LimiterIdle
    /\ OrdersIdle
    /\ UsersIdle
    /\ CacheIdle
    /\ v_pc = "call"
    /\ v_enable \in BOOLEAN
    /\ v_info \in VInfos
    /\ v_resp = ValResponse("raise", EmptyVR, EmptyOV)
    /\ v_out = NoValidation(FALSE)

\* one call _ai_validate_extracted_data(text, v_info); v_resp is what
\* self.llm.ainvoke answers if it is called
ValidateCall ==
    /\ v_pc = "call"
    /\ \E resp \in VResponses :
        /\ v_resp' = resp
        /\ v_out' = AiValidateExtractedData(v_enable, v_info, resp)
    /\ v_pc' = "returned"
    /\ UNCHANGED <<v_enable, v_info>>
    /\ UNCHANGED not_v

NextValidate == ValidateCall

SpecValidate == InitValidate /\ [][NextValidate]_vars

----------------------------------------------------------------------------
(* Properties of process_document *)

Returned == pc = "Done"
Succeeded == pc = "Done" /\ response.success

\* C1: in every successful run the returned confidence_score equals the rubric
\* score of the returned patient_info.
C1_ConfidenceIsRubricOfReturnedInfo ==
    Succeeded => response.confidence_score = CalculateConfidence(response.patient_info)

\* C2: if text extraction succeeded, process_document returns success=true
\* whatever the reasoning service answers.
C2_SuccessWheneverTextExtracted ==
    (Returned /\ ExtractTextFromPdf(doc).ok) => response.success

\* C3: the confidence_score of a successful run is never lower than the rubric
\* confidence of the pattern-extracted fields computed before validation.
C3_ConfidenceNotBelowPreValidation ==
    Succeeded => response.confidence_score >= CalculateConfidence(ocr_result)

\* a successful run whose validation corrections lowered the rubric score
C3_Witness ==
    /\ Succeeded
    /\ response.ai_validation.corrections_applied # <<>>
    /\ CalculateConfidence(response.patient_info) < CalculateConfidence(ocr_result)

\* C4: vision reanalysis is attempted only after text reanalysis has been
\* attempted in the same run, and only when the quality value is below 0.7 and
\* below 0.6.
C4_VisionOnlyAfterTextAndBothGates ==
    [][attempts'.vision > attempts.vision =>
         /\ attempts.text > 0
         /\ data_quality_score < 70
         /\ data_quality_score < 60]_vars

\* a run in which vision reanalysis was attempted
C4_Witness == attempts.vision = 1 /\ attempts.text = 1 /\ pc = "VisionReanalyzed"

\* position of a stage in Extracted, Scored, Validated, TextReanalyzed,
\* VisionReanalyzed, Done; revalidating an adopted result is the second half of
\* the reanalysis stage that adopted it
StageRank(p) ==
    CASE p = "Start" -> 0
      [] p = "Extracted" -> 1
      [] p = "Scored" -> 2
      [] p = "Validated" -> 3
      [] p = "TextReanalyzed" -> 4
      [] p = "TextRevalidated" -> 5
      [] p = "VisionReanalyzed" -> 6
      [] p = "VisionRevalidated" -> 7
      [] p = "Done" -> 8
      [] OTHER -> 0

\* C5: text reanalysis and vision reanalysis are each invoked at most once in a
\* run, and every step of the run moves to a later stage: no stage is retried
\* and no earlier stage is re-entered.
C5_EachStepOnceAndForward ==
    [][/\ StageRank(pc') > StageRank(pc)
       /\ attempts'.text <= 1
       /\ attempts'.vision <= 1]_vars

\* a run that went through validation, text reanalysis and vision reanalysis
C5_Witness ==
    /\ Returned
    /\ attempts.text = 1
    /\ attempts.vision = 1
    /\ attempts.validate = 2

\* C6: the returned confidence_score lies between 0.0 and 1.0 inclusive, for
\* every run.
C6_ConfidenceInUnitInterval ==
    Returned => (0 <= response.confidence_score /\ response.confidence_score <= 100)

\* a successful run whose fields add up to more than 1.0 before clamping
C6_Witness ==
    /\ Succeeded
    /\ CalculateConfidenceNoClamp(response.patient_info) > 100
    /\ response.confidence_score = 100

\* a backend completes with non-empty trimmed text
BackendSucceeds(o) == ~o.raised /\ \E i \in 1..Len(o.pages) : o.pages[i] = "txt"

NoBackendSucceeds(d) ==
    ~BackendSucceeds(d.pl) /\ ~BackendSucceeds(d.py) /\ ~BackendSucceeds(d.ocr)

\* C7: when none of the three backends completes with non-empty trimmed text,
\* _extract_text_from_pdf fails instead of returning a (text, method) pair, and
\* process_document returns success=false, patient_info=null, confidence 0.0.
C7_NoTextMeansFailure ==
    (NoBackendSucceeds(doc) /\ pc # "Start") =>
        /\ ~ExtractTextFromPdf(doc).ok
        /\ Returned
        /\ ~response.success
        /\ response.patient_info = EmptyInfo
        /\ response.confidence_score = 0

----------------------------------------------------------------------------
(* Properties of _ai_validate_extracted_data *)

VReturned == v_pc = "returned"

\* the service was asked and answered text that is not a JSON object
VNotAnObject == v_out.called /\ v_resp.kind \in {"unparseable", "nonobj"}

\* C8: when the validation response cannot be parsed as a structured object,
\* the call returns a summary with data_quality_score 0.5 and overall_confidence
\* 0.5, each field is_valid with confidence 0.5 and a parse-failure issue, no
\* corrections, and the candidate unchanged; it does not return null.
C8_UnparsableGivesDegradedSummary ==
    (VReturned /\ VNotAnObject) =>
        /\ ~v_out.none
        /\ v_out.validation_summary.overall_validation.data_quality_score = JNum(50)
        /\ v_out.validation_summary.overall_validation.overall_confidence = JNum(50)
        /\ \A i \in 1..Len(Fields) :
              LET fv == v_out.validation_summary.validation_results[Fields[i]] IN
              fv.is_valid /\ fv.confidence = 50 /\ fv.issues = <<ParseErrorIssue>>
        /\ v_out.validation_summary.corrections_applied = <<>>
        /\ v_out.corrected_patient_info = v_info

\* first_name, last_name and date_of_birth of the candidate are all null
AllFieldsNull(info) == \A i \in 1..Len(Fields) : Get(info[Fields[i]]).t = "null"

\* C9: the call returns null without calling the reasoning service when the AI
\* capability is disabled or the three fields of the candidate are all null,
\* and calls the service in every other case.
C9_NoCallWhenDisabledOrEmpty ==
    VReturned =>
        /\ (~v_enable \/ AllFieldsNull(v_info)) => (v_out.none /\ ~v_out.called)
        /\ ~(~v_enable \/ AllFieldsNull(v_info)) => v_out.called

\* the corrected_value the service supplied for a field (null when absent)
SuppliedCorrection(f) == Get(v_resp.vr[f].corrected_value)

\* the CorrectionApplied records expected when the fields for which Changed
\* holds are corrected, in field order
ExpectedCorrections(Changed(_)) ==
    LET changed == SelectSeq(Fields, Changed) IN
    [i \in 1..Len(changed) |->
        [field |-> changed[i],
         original |-> Get(v_info[changed[i]]),
         corrected |-> SuppliedCorrection(changed[i]),
         reason |-> v_resp.vr[changed[i]].issues]]

\* a non-null corrected_value different from the original was supplied
NonNullAndDifferent(f) ==
    SuppliedCorrection(f).t # "null" /\ SuppliedCorrection(f) # Get(v_info[f])

\* a non-null, non-empty, non-zero corrected_value different from the original
TruthyAndDifferent(f) ==
    Truthy(SuppliedCorrection(f)) /\ SuppliedCorrection(f) # Get(v_info[f])

\* the call answered a result built from the service's own object
VResultFromObject == VReturned /\ ~v_out.none /\ v_resp.kind = "obj"

\* C10 as stated: a field of the corrected candidate differs from the input
\* exactly when a non-null corrected_value different from the original was
\* supplied, with one CorrectionApplied record per such field, in field order.
C10_CorrectedExactlyWhenNonNull ==
    VResultFromObject =>
        /\ \A i \in 1..Len(Fields) :
              (Get(v_out.corrected_patient_info[Fields[i]]) # Get(v_info[Fields[i]]))
                  <=> NonNullAndDifferent(Fields[i])
        /\ v_out.validation_summary.corrections_applied
              = ExpectedCorrections(NonNullAndDifferent)

\* C10 amended: a field of the corrected candidate differs from the input
\* exactly when a truthy (non-null, non-empty, non-zero) corrected_value
\* different from the original was supplied; then it takes that value and one
\* CorrectionApplied record is appended, in field order; every other field
\* keeps its input value.
C10_CorrectedExactlyWhenTruthy ==
    VResultFromObject =>
        /\ \A i \in 1..Len(Fields) :
              /\ (Get(v_out.corrected_patient_info[Fields[i]]) # Get(v_info[Fields[i]]))
                    <=> TruthyAndDifferent(Fields[i])
              /\ TruthyAndDifferent(Fields[i]) =>
                    v_out.corrected_patient_info[Fields[i]] = SuppliedCorrection(Fields[i])
              /\ ~TruthyAndDifferent(Fields[i]) =>
                    v_out.corrected_patient_info[Fields[i]] = v_info[Fields[i]]
        /\ v_out.validation_summary.corrections_applied
              = ExpectedCorrections(TruthyAndDifferent)

\* a call that corrected two fields, kept one, and ignored an empty correction
C10_Witness ==
    /\ VResultFromObject
    /\ Len(v_out.validation_summary.corrections_applied) = 2
    /\ \E i \in 1..Len(Fields) :
          /\ SuppliedCorrection(Fields[i]) = JStr(<<>>)
          /\ v_out.corrected_patient_info[Fields[i]] = v_info[Fields[i]]

\* every page of the extracted text was produced by backend b
TextProducedBy(b) == text # <<>> /\ \A i \in 1..Len(text) : text[i].src = b

\* C11: in every successful result extraction_method is the provenance of the
\* returned patient_info: ai_vision_enhanced exactly for a vision result,
\* ai_text_enhanced exactly for a text result, otherwise ocr_<backend>, with
\* the suffix _ai_validated exactly when a validation result was applied, where
\* <backend> is the cascade backend that produced the text.
C11_MethodIsProvenance ==
    Succeeded =>
        /\ (response.extraction_method = VisionMethod) <=> (result_source = "vision")
        /\ (response.extraction_method = TextMethod) <=> (result_source = "text")
        /\ result_source \notin {"text", "vision"} =>
              \E b \in {"pdfplumber", "pypdf2", "tesseract"} :
                  /\ TextProducedBy(b)
                  /\ response.extraction_method =
                        IF result_source = "validation"
                        THEN <<"ocr", b, "ai_validated">> ELSE <<"ocr", b>>

----------------------------------------------------------------------------
(* _extract_text_from_pdf, one backend at a time *)

\* largest number of pages a backend reads from the document
MaxPages == 2

PageSeqs(kinds) == UNION { [1..n -> kinds] : n \in 0..MaxPages }

\* pdfplumber and PyPDF2 may raise after any number of pages; an OCR run that
\* raises leaves nothing behind, and OCR only keeps pages with non-blank text
ExtractDocs ==
    { [pl |-> a, py |-> b, ocr |-> c] :
        a \in { Outcome(p, r, IF r THEN "other" ELSE "") :
                  p \in PageSeqs({"txt", "ws"}), r \in BOOLEAN },
        b \in { Outcome(p, r, IF r THEN "other" ELSE "") :
                  p \in PageSeqs({"txt", "ws"}), r \in BOOLEAN },
        c \in { Outcome(p, FALSE, "") : p \in PageSeqs({"txt"}) }
              \cup { Outcome(<<>>, TRUE, m) : m \in {"other", "tesseract"} } }

InitExtract ==
    /\ PipelineIdle
    /\ ValidateIdle
    /\ HelperIdle
    /\ TwiceIdle
    /\ LimiterIdle
    /\ OrdersIdle
    /\ UsersIdle
    /\ CacheIdle
    /\ e_pc = "pdfplumber"
    /\ e_doc \in ExtractDocs
    /\ e_text = <<>>
    /\ e_tried = <<>>
    /\ e_ret = ExtractionError("")

\* Method 1: pdfplumber
TryPdfplumber ==
    /\ e_pc = "pdfplumber"
    /\ e_tried' = Append(e_tried, "pl")
    /\ e_text' = e_text \o Tokens("pdfplumber", e_doc.pl.pages)
    /\ IF ~e_doc.pl.raised /\ StripNonEmpty(e_text')
       THEN e_ret' = Extracted(e_text', "pdfplumber") /\ e_pc' = "returned"
       ELSE e_ret' = e_ret /\ e_pc' = "pypdf2"
    /\ UNCHANGED e_doc
    /\ UNCHANGED not_e

\* Method 2: PyPDF2
TryPyPDF2 ==
    /\ e_pc = "pypdf2"
    /\ e_tried' = Append(e_tried, "py")
    /\ e_text' = e_text \o Tokens("pypdf2", e_doc.py.pages)
    /\ IF ~e_doc.py.raised /\ StripNonEmpty(e_text')
       THEN e_ret' = Extracted(e_text', "pypdf2") /\ e_pc' = "returned"
       ELSE e_ret' = e_ret /\ e_pc' = "ocr"
    /\ UNCHANGED e_doc
    /\ UNCHANGED not_e

\* Method 3: OCR, and the final test of text and return of (text, method)
TryOcr ==
    /\ e_pc = "ocr"
    /\ e_tried' = Append(e_tried, "ocr")
    /\ e_text' = IF e_doc.ocr.raised THEN e_text ELSE Tokens("tesseract", e_doc.ocr.pages)
    /\ IF ~e_doc.ocr.raised /\ StripNonEmpty(e_text')
       THEN e_ret' = Extracted(e_text', "tesseract") /\ e_pc' = "returned"
       ELSE IF e_doc.ocr.raised /\ e_doc.ocr.msg = "tesseract"
       THEN /\ e_ret' = ExtractionError("Could not extract text from PDF. Please install Tesseract OCR")
            /\ e_pc' = "raised"
       ELSE IF ~StripNonEmpty(e_text')
       THEN e_ret' = ExtractionError("Could not extract text from PDF") /\ e_pc' = "raised"
       ELSE e_ret' = Extracted(e_text', "none") /\ e_pc' = "returned"
    /\ UNCHANGED e_doc
    /\ UNCHANGED not_e

NextExtract == TryPdfplumber \/ TryPyPDF2 \/ TryOcr

SpecExtract == InitExtract /\ [][NextExtract]_vars

\* the call has returned or raised
EFinished == e_pc \in {"returned", "raised"}

\* the stepwise cascade and ExtractTextFromPdf agree on the outcome
CascadeAgrees == EFinished => e_ret = ExtractTextFromPdf(e_doc)

\* the backend that a returned method names
BackendOf(method) ==
    CASE method = "pdfplumber" -> "pl" [] method = "pypdf2" -> "py"
      [] method = "tesseract" -> "ocr" [] OTHER -> "none"

\* C12: the backends are tried in the order pdfplumber, PyPDF2, OCR; a later
\* backend is invoked only if every earlier one failed (raised or produced
\* empty trimmed text), and the returned method names the first backend that
\* succeeded.
C12_CascadeOrderAndFirstSuccess ==
    /\ \E n \in 0..3 : e_tried = SubSeq(<<"pl", "py", "ocr">>, 1, n)
    /\ \A i \in 1..Len(e_tried) : \A j \in 1..Len(e_tried) :
          i < j => ~BackendSucceeds(e_doc[e_tried[i]])
    /\ e_pc = "returned" =>
          /\ BackendOf(e_ret.method) \in {"pl", "py", "ocr"}
          /\ BackendSucceeds(e_doc[BackendOf(e_ret.method)])
          /\ e_ret.method = (CASE BackendSucceeds(e_doc.pl) -> "pdfplumber"
                               [] ~BackendSucceeds(e_doc.pl) /\ BackendSucceeds(e_doc.py) -> "pypdf2"
                               [] OTHER -> "tesseract")

----------------------------------------------------------------------------
(* Two successive calls of process_document on the same bytes and flags,   *)
(* against a reasoning service stubbed to answer deterministically: the    *)
(* stub fixes its answer to a prompt the first time the prompt is sent.    *)

\* the stub answers resp to the prompt key: it gave no other answer before
StubAllows(memo, key, resp) == \A e \in memo : e.key = key => e.resp = resp
StubRecord(memo, key, resp) == memo \cup {[key |-> key, resp |-> resp]}

\* the documents submitted twice: one per pattern result without a date, and
\* those no backend reads
TwiceDocs ==
    { d \in Docs : \/ ~ExtractTextFromPdf(d).ok
                   \/ /\ [pl |-> d.pl, py |-> d.py, ocr |-> d.ocr] = DefaultCase
                      /\ d.fields.date_of_birth = JNull }

\* the answers the stub may fix for a validation prompt
StubValAnswers ==
    { r \in ValResponses :
        \/ r.kind = "raise"
        \/ /\ r.kind = "obj"
           /\ r.vr \in CorrectingVRs
           /\ r.vr.first_name.corrected_value = JNull
           /\ r.vr.last_name.corrected_value \in {JMissing, CorrSamples[1]}
           /\ r.ov.t = "dict"
           /\ r.ov.data_quality_score \in
                 {JMissing, JNum(DqsSamples[1]), JNum(DqsSamples[3])} }

\* the answers the stub may fix for a text or a vision prompt
StubTextAnswers ==
    { r \in TextResponses :
        \/ r.kind = "raise"
        \/ /\ r.kind = "obj"
           /\ r.info.first_name = r.info.last_name
           /\ r.info.date_of_birth = JStr(sDob) }
StubVisionAnswers ==
    { r \in VisionResponses : r \in StubTextAnswers \/ r.kind = "render_fail" }

InitTwice ==
    /\ doc \in TwiceDocs
    /\ use_ai \in {"none", "true", "false"}
    /\ enable_ai \in BOOLEAN
    /\ pc = "Start"
    /\ text = <<>>
    /\ ocr_method = "none"
    /\ ocr_result = EmptyInfo
    /\ final_result = EmptyInfo
    /\ final_method = <<>>
    /\ final_confidence = 0
    /\ validation_summary = NoSummary
    /\ data_quality_score = 0
    /\ response = NoResponse
    /\ attempts = NoCalls
    /\ llm_calls = NoCalls
    /\ result_source = "unset"
    /\ t_run = 1
    /\ t_first = NoResponse
    /\ m_val = {}
    /\ m_text = {}
    /\ m_vision = {}
    /\ ValidateIdle
    /\ ExtractIdle
    /\ HelperIdle
    /\ LimiterIdle
    /\ OrdersIdle
    /\ UsersIdle
    /\ CacheIdle

StubValidate ==
    /\ \E resp \in StubValAnswers :
        /\ StubAllows(m_val, ocr_result, resp)
        /\ ValidateStep(resp)
        /\ m_val' = StubRecord(m_val, ocr_result, resp)
    /\ UNCHANGED <<t_run, t_first, m_text, m_vision>>
    /\ UNCHANGED not_pt

StubTextReanalyze ==
    /\ \E resp \in StubTextAnswers :
        /\ StubAllows(m_text, text, resp)
        /\ TextReanalyzeStep(resp)
        /\ m_text' = StubRecord(m_text, text, resp)
    /\ UNCHANGED <<t_run, t_first, m_val, m_vision>>
    /\ UNCHANGED not_pt

StubTextRevalidate ==
    /\ \E resp \in StubValAnswers :
        /\ StubAllows(m_val, final_result, resp)
        /\ TextRevalidateStep(resp)
        /\ m_val' = StubRecord(m_val, final_result, resp)
    /\ UNCHANGED <<t_run, t_first, m_text, m_vision>>
    /\ UNCHANGED not_pt

StubVisionReanalyze ==
    /\ \E resp \in StubVisionAnswers :
        /\ StubAllows(m_vision, doc, resp)
        /\ VisionReanalyzeStep(resp)
        /\ m_vision' = StubRecord(m_vision, doc, resp)
    /\ UNCHANGED <<t_run, t_first, m_val, m_text>>
    /\ UNCHANGED not_pt

StubVisionRevalidate ==
    /\ \E resp \in StubValAnswers :
        /\ StubAllows(m_val, final_result, resp)
        /\ VisionRevalidateStep(resp)
        /\ m_val' = StubRecord(m_val, final_result, resp)
    /\ UNCHANGED <<t_run, t_first, m_text, m_vision>>
    /\ UNCHANGED not_pt

\* the first call has returned; the same bytes and flags are submitted again
SecondCall ==
    /\ t_run = 1
    /\ pc = "Done"
    /\ t_first' = response
    /\ t_run' = 2
    /\ pc' = "Start"
    /\ response' = NoResponse
    /\ attempts' = NoCalls
    /\ llm_calls' = NoCalls
    /\ result_source' = "unset"
    /\ UNCHANGED <<doc, use_ai, enable_ai, text, ocr_method, ocr_result, final_result,
                   final_method, final_confidence, validation_summary,
                   data_quality_score>>
    /\ UNCHANGED <<m_val, m_text, m_vision>>
    /\ UNCHANGED not_pt

NextTwice ==
    \/ ExtractText
    \/ ExtractFields
    \/ StubValidate
    \/ StubTextReanalyze
    \/ StubTextRevalidate
    \/ StubVisionReanalyze
    \/ StubVisionRevalidate
    \/ Assemble
    \/ SecondCall

SpecTwice == InitTwice /\ [][NextTwice]_vars

BothReturned == t_run = 2 /\ pc = "Done"

\* a result with its two wall-clock fields blanked
WithoutClock(r) == [r EXCEPT !.timestamp = 0, !.processing_time_ms = 0]

----------------------------------------------------------------------------
(* One call of _calculate_confidence on a candidate whose fields are       *)
(* strings, null or absent.                                                *)

sPerson == <<"P", "e", "r", "s", "o", "n">>
sNUMBER == <<"N", "U", "M", "B", "E", "R">>
sSmith == <<"S", "m", "i", "t", "h">>

LastSamples == <<sLee, sSidney, sLee7, sDAVID, sPerson, sNUMBER, sSmith>>

ConfidenceCandidates ==
    {EmptyInfo} \cup
    { [first_name |-> f, last_name |-> l, date_of_birth |-> d] :
        f \in {JNull, JMissing, JStr(<<>>), JStr(sAnn), JStr(sSidney)},
        l \in {JNull, JMissing, JStr(<<>>)}
              \cup { JStr(s) : s \in Prefix(LastSamples, MaxLast) },
        d \in {JNull, JStr(<<>>), JStr(sDob)} }

InitConfidence ==
    /\ f_pc = "called"
    /\ f_arg \in ConfidenceCandidates
    /\ f_ret = 0
    /\ PipelineIdle
    /\ ValidateIdle
    /\ ExtractIdle
    /\ TwiceIdle
    /\ LimiterIdle
    /\ OrdersIdle
    /\ UsersIdle
    /\ CacheIdle

CallCalculateConfidence ==
    /\ f_pc = "called"
    /\ f_ret' = CalculateConfidence(f_arg)
    /\ f_pc' = "returned"
    /\ UNCHANGED f_arg
    /\ UNCHANGED not_f

NextConfidence == CallCalculateConfidence

SpecConfidence == InitConfidence /\ [][NextConfidence]_vars

\* a field is present: it holds a non-empty string
Present(v) == v.t = "str" /\ Len(v.s) > 0

\* word occurs in str, letters compared case-insensitively
OccursAnyCase(str, word) ==
    \E i \in 1..Len(str) :
        /\ i + Len(word) - 1 <= Len(str)
        /\ \A k \in 1..Len(word) : Lower(str[i + k - 1]) = word[k]

CleanLastName(str) ==
    /\ \A i \in 1..Len(str) : ~IsDigit(str[i])
    /\ ~OccursAnyCase(str, <<"p", "e", "r", "s", "o", "n">>)
    /\ ~OccursAnyCase(str, <<"n", "u", "m", "b", "e", "r">>)
    /\ ~OccursAnyCase(str, <<"i", "d">>)

Points(cond, n) == IF cond THEN n ELSE 0

RubricOf(info) ==
    IF info = EmptyInfo THEN 0
    ELSE Min(100, Points(Present(info.first_name), 40)
                + Points(Present(info.last_name), 40)
                + Points(Present(info.last_name) /\ CleanLastName(info.last_name.s), 10)
                + Points(Present(info.date_of_birth), 20))

\* C14: _calculate_confidence returns min(1.0, 0.4 [first name present] +
\* 0.4 [last name present] + 0.1 [last name present, no digit, none of
\* person/number/id in any case] + 0.2 [date of birth present]), 0.0 for a
\* null candidate, and the bonus does not depend on the first name.
C14_ConfidenceIsRubric ==
    f_pc = "returned" => f_ret = RubricOf(f_arg)

\* an upper-case artifact word in the last name costs the bonus, one in the
\* first name costs nothing
C14_Witness ==
    /\ f_pc = "returned"
    /\ f_arg.last_name = JStr(sNUMBER)
    /\ f_arg.first_name = JStr(sSidney)
    /\ f_arg.date_of_birth = JStr(<<>>)
    /\ f_ret = 80

----------------------------------------------------------------------------
(* _is_valid_date_format and _extract_date_of_birth *)

RECURSIVE SplitFrom(_, _, _)
\* str.split(sep): the parts of str from position i on, cur being the part so far
SplitFrom(str, i, cur) ==
    IF i > Len(str) THEN <<cur>>
    ELSE IF str[i] = "/" THEN <<cur>> \o SplitFrom(str, i + 1, <<>>)
    ELSE SplitFrom(str, i + 1, Append(cur, str[i]))

\* date_str.split('/')
SplitSlash(str) == SplitFrom(str, 1, <<>>)

DigitValue(c) ==
    CASE c = "0" -> 0 [] c = "1" -> 1 [] c = "2" -> 2 [] c = "3" -> 3 [] c = "4" -> 4
      [] c = "5" -> 5 [] c = "6" -> 6 [] c = "7" -> 7 [] c = "8" -> 8 [] c = "9" -> 9

Unsigned(part) ==
    IF part # <<>> /\ Head(part) \in {"+", "-"} THEN Tail(part) ELSE part

\* int(part) raises ValueError
IntRaises(part) ==
    \/ Unsigned(part) = <<>>
    \/ \E i \in 1..Len(Unsigned(part)) : ~IsDigit(Unsigned(part)[i])

RECURSIVE DigitsValue(_)
DigitsValue(digits) ==
    IF digits = <<>> THEN 0
    ELSE 10 * DigitsValue(SubSeq(digits, 1, Len(digits) - 1))
         + DigitValue(digits[Len(digits)])

\* int(part), where it does not raise
IntOf(part) ==
    IF part # <<>> /\ Head(part) = "-" THEN 0 - DigitsValue(Unsigned(part))
    ELSE DigitsValue(Unsigned(part))

IsValidDateFormatAnyMonth(date_str) ==
    LET parts == SplitSlash(date_str) IN
    IF Len(parts) # 3 THEN FALSE
    ELSE IF \E i \in 1..3 : IntRaises(parts[i]) THEN FALSE
    ELSE LET nums == [i \in 1..3 |-> IntOf(parts[i])] IN
         IF /\ Len(parts[3]) = 4
            /\ 1 <= nums[2] /\ nums[2] <= 31
            /\ 1900 <= nums[3] /\ nums[3] <= 2030
         THEN TRUE
         ELSE IF /\ Len(parts[1]) = 4
                 /\ 1900 <= nums[1] /\ nums[1] <= 2030
                 /\ 1 <= nums[3] /\ nums[3] <= 31
         THEN TRUE
         ELSE FALSE

IsValidDateFormat(date_str) ==
    LET parts == SplitSlash(date_str) IN
    IF Len(parts) # 3 THEN FALSE
    ELSE IF \E i \in 1..3 : IntRaises(parts[i]) THEN FALSE
    ELSE LET nums == [i \in 1..3 |-> IntOf(parts[i])] IN
         IF /\ Len(parts[3]) = 4
            /\ 1 <= nums[1] /\ nums[1] <= 12
            /\ 1 <= nums[2] /\ nums[2] <= 31
            /\ 1900 <= nums[3] /\ nums[3] <= 2030
         THEN TRUE
         ELSE IF /\ Len(parts[1]) = 4
                 /\ 1900 <= nums[1] /\ nums[1] <= 2030
                 /\ 1 <= nums[2] /\ nums[2] <= 12
                 /\ 1 <= nums[3] /\ nums[3] <= 31
         THEN TRUE
         ELSE FALSE

\* re.sub(r'[/-]', '/', date_str)
NormalizeDate(str) == [i \in 1..Len(str) |-> IF str[i] = "-" THEN "/" ELSE str[i]]

NoMatch == <<>>

RECURSIVE ExtractFrom(_, _)
\* the loop over self.dob_patterns from pattern k on; first_matches[k] is
\* matches[0] of pattern k, or NoMatch when the pattern finds nothing
ExtractFrom(first_matches, k) ==
    IF k > Len(first_matches) THEN JNull
    ELSE IF first_matches[k] # NoMatch /\ IsValidDateFormat(NormalizeDate(first_matches[k]))
    THEN JStr(NormalizeDate(first_matches[k]))
    ELSE ExtractFrom(first_matches, k + 1)

ExtractDateOfBirth(first_matches) == ExtractFrom(first_matches, 1)

DateFieldSamples ==
    <<<<"0", "1">>,
      <<"1", "5">>,
      <<"1", "9", "8", "0">>,
      <<"1", "3">>,
      <<"4", "0">>,
      <<"1", "x">>,
      <<>>,
      <<"2", "0", "3", "1">>,
      <<"1", "8", "9", "9">>,
      <<"0">>,
      <<"3", "2">>,
      <<"1", "2">>,
      <<"3", "1">>,
      <<"1", "9", "0", "0">>,
      <<"2", "0", "3", "0">>,
      <<"-", "1">>,
      <<"+", "5">>,
      <<"1", "9", "9", "0">>,
      <<"0", "2">>,
      <<"3", "0">>>>

JoinSlash(parts) ==
    IF Len(parts) = 1 THEN parts[1]
    ELSE IF Len(parts) = 2 THEN parts[1] \o <<"/">> \o parts[2]
    ELSE IF Len(parts) = 3 THEN parts[1] \o <<"/">> \o parts[2] \o <<"/">> \o parts[3]
    ELSE parts[1] \o <<"/">> \o parts[2] \o <<"/">> \o parts[3] \o <<"/">> \o parts[4]

\* the strings _is_valid_date_format is asked about
DateStrings ==
    LET F == Prefix(DateFieldSamples, MaxDateFields) IN
    { JoinSlash(<<a>>) : a \in F }
    \cup { JoinSlash(<<a, b>>) : a \in F, b \in F }
    \cup { JoinSlash(<<a, b, c>>) : a \in F, b \in F, c \in F }
    \cup { JoinSlash(<<a, b, c, c>>) : a \in F, b \in F, c \in F }

\* what the day-first and the year-first patterns can capture
MonthFirstMatches == {NoMatch, <<"1", "3", "/", "4", "0", "/", "1", "9", "9", "0">>,
                       <<"0", "1", "-", "1", "5", "-", "1", "9", "8", "0">>,
                       <<"0", "2", "/", "3", "0", "-", "1", "9", "9", "0">>,
                       <<"1", "/", "5", "/", "1", "8", "9", "9">>}
YearFirstMatches == {NoMatch, <<"1", "9", "8", "0", "-", "0", "1", "-", "1", "5">>,
                      <<"2", "0", "3", "1", "/", "0", "1", "/", "1", "5">>,
                      <<"1", "9", "9", "0", "/", "1", "3", "/", "0", "1">>}

FirstMatches ==
    { <<a, b, c, d, e>> : a \in MonthFirstMatches, b \in YearFirstMatches,
                          c \in MonthFirstMatches, d \in YearFirstMatches,
                          e \in MonthFirstMatches }

InitDate ==
    /\ \/ f_pc = "validate" /\ f_arg \in DateStrings
       \/ f_pc = "extract" /\ f_arg \in FirstMatches
    /\ f_ret = JNull
    /\ PipelineIdle
    /\ ValidateIdle
    /\ ExtractIdle
    /\ TwiceIdle
    /\ LimiterIdle
    /\ OrdersIdle
    /\ UsersIdle
    /\ CacheIdle

CallIsValidDateFormat ==
    /\ f_pc = "validate"
    /\ f_ret' = IsValidDateFormat(f_arg)
    /\ f_pc' = "validated"
    /\ UNCHANGED f_arg
    /\ UNCHANGED not_f

CallExtractDateOfBirth ==
    /\ f_pc = "extract"
    /\ f_ret' = ExtractDateOfBirth(f_arg)
    /\ f_pc' = "extracted"
    /\ UNCHANGED f_arg
    /\ UNCHANGED not_f

NextDate == CallIsValidDateFormat \/ CallExtractDateOfBirth

SpecDate == InitDate /\ [][NextDate]_vars

\* the part is an integer literal with value in lo..hi
IntegerIn(part, lo, hi) ==
    /\ ~IntRaises(part)
    /\ IntOf(part) \in lo..hi

\* the acceptance rule as the claim words it
PlausibleDate(str) ==
    LET p == SplitSlash(str) IN
    /\ Len(p) = 3
    /\ \A i \in 1..3 : ~IntRaises(p[i])
    /\ \/ /\ Len(p[3]) = 4
          /\ IntegerIn(p[1], 1, 12) /\ IntegerIn(p[2], 1, 31)
          /\ IntegerIn(p[3], 1900, 2030)
       \/ /\ Len(p[1]) = 4
          /\ IntegerIn(p[1], 1900, 2030) /\ IntegerIn(p[2], 1, 12)
          /\ IntegerIn(p[3], 1, 31)

\* C15: _is_valid_date_format accepts exactly the strings with three integer
\* fields that are month/day/4-character year or 4-character year/month/day
\* with year in 1900..2030, month in 1..12, day in 1..31; 13/40/1990 is
\* rejected, 02/30/1990 and 1980/01/15 are accepted; _extract_date_of_birth
\* never returns a value that fails the check.
C15_DatePlausibility ==
    /\ f_pc = "validated" => (f_ret <=> PlausibleDate(f_arg))
    /\ ~IsValidDateFormat(<<"1", "3", "/", "4", "0", "/", "1", "9", "9", "0">>)
    /\ IsValidDateFormat(<<"0", "2", "/", "3", "0", "/", "1", "9", "9", "0">>)
    /\ IsValidDateFormat(<<"1", "9", "8", "0", "/", "0", "1", "/", "1", "5">>)
    /\ f_pc = "extracted" /\ f_ret # JNull => PlausibleDate(f_ret.s)

\* the labelled month-first match is implausible, the dashed year-first one is
\* normalised and returned
C15_Witness ==
    /\ f_pc = "extracted"
    /\ f_arg[1] = <<"1", "3", "/", "4", "0", "/", "1", "9", "9", "0">>
    /\ f_arg[2] = <<"1", "9", "8", "0", "-", "0", "1", "-", "1", "5">>
    /\ f_ret = JStr(<<"1", "9", "8", "0", "/", "0", "1", "/", "1", "5">>)

----------------------------------------------------------------------------
(* _extract_patient_name_ocr: the four name patterns and the comma rule,    *)
(* given what each pattern finds in the whitespace-normalised text.         *)

Upper(c) ==
    CASE c = "a" -> "A" [] c = "b" -> "B" [] c = "c" -> "C" [] c = "d" ->
      "D" [] c = "e" -> "E" [] c = "f" -> "F" [] c = "g" -> "G" [] c = "h"
      -> "H" [] c = "i" -> "I" [] c = "j" -> "J" [] c = "k" -> "K" [] c =
      "l" -> "L" [] c = "m" -> "M" [] c = "n" -> "N" [] c = "o" -> "O" [] c
      = "p" -> "P" [] c = "q" -> "Q" [] c = "r" -> "R" [] c = "s" -> "S"
      [] c = "t" -> "T" [] c = "u" -> "U" [] c = "v" -> "V" [] c = "w" -> "W"
      [] c = "x" -> "X" [] c = "y" -> "Y" [] c = "z" -> "Z"
      [] OTHER -> c

IsLetter(c) == Lower(c) # Upper(c)

\* str.title(): a letter after a non-letter is upper-cased, the others lowered
Title(str) ==
    [i \in 1..Len(str) |->
        IF i = 1 \/ ~IsLetter(str[i - 1]) THEN Upper(str[i]) ELSE Lower(str[i])]

RECURSIVE JoinSpace(_)
\* ' '.join(parts)
JoinSpace(parts) ==
    IF parts = <<>> THEN <<>>
    ELSE IF Len(parts) = 1 THEN parts[1]
    ELSE parts[1] \o <<" ">> \o JoinSpace(Tail(parts))

RECURSIVE LetterPrefix(_)
\* [A-Za-z]+ at the start of a token
LetterPrefix(tok) ==
    IF tok = <<>> \/ ~IsLetter(Head(tok)) THEN <<>>
    ELSE <<Head(tok)>> \o LetterPrefix(Tail(tok))

RECURSIVE LabelCapture(_)
\* the group ([A-Za-z]+(?:\s+[A-Za-z]+)*) of the first pattern on the tokens
\* that follow the label, already split on whitespace
LabelCapture(tokens) ==
    IF tokens = <<>> \/ LetterPrefix(Head(tokens)) = <<>> THEN <<>>
    ELSE IF LetterPrefix(Head(tokens)) # Head(tokens) THEN <<LetterPrefix(Head(tokens))>>
    ELSE <<Head(tokens)>> \o LabelCapture(Tail(tokens))

\* re.match(r'.*\d.*', part) or part.lower() in ['person', 'number', 'id']
LooksLikeArtifact(part) ==
    \/ \E i \in 1..Len(part) : IsDigit(part[i])
    \/ LowerStr(part) \in {<<"p", "e", "r", "s", "o", "n">>,
                           <<"n", "u", "m", "b", "e", "r">>, <<"i", "d">>}

RECURSIVE CleanedPartsSkipping(_)
CleanedPartsSkipping(last_name_parts) ==
    IF last_name_parts = <<>> THEN <<>>
    ELSE IF LooksLikeArtifact(Head(last_name_parts))
    THEN CleanedPartsSkipping(Tail(last_name_parts))
    ELSE <<Head(last_name_parts)>> \o CleanedPartsSkipping(Tail(last_name_parts))

RECURSIVE CleanedParts(_)
\* the loop that fills cleaned_parts and breaks at the first artifact
CleanedParts(last_name_parts) ==
    IF last_name_parts = <<>> THEN <<>>
    ELSE IF LooksLikeArtifact(Head(last_name_parts)) THEN <<>>
    ELSE <<Head(last_name_parts)>> \o CleanedParts(Tail(last_name_parts))

\* first_name = None, last_name = None; by and parts record which branch set
\* last_name and from which name_parts
NoName == [first_name |-> JNull, last_name |-> JNull, by |-> "none", parts |-> <<>>]

RECURSIVE SingleGroup(_, _, _)
\* for match in matches, single capture group: matches[k..] are the name_parts
SingleGroup(st, matches, k) ==
    IF k > Len(matches) THEN st
    ELSE IF Len(matches[k]) >= 2
    THEN LET name_parts == matches[k]
             cleaned_parts == CleanedParts(Tail(name_parts))
         IN IF cleaned_parts # <<>>
            THEN [first_name |-> JStr(Title(name_parts[1])),
                  last_name |-> JStr(Title(JoinSpace(cleaned_parts))),
                  by |-> "single", parts |-> name_parts]
            ELSE [st EXCEPT !.first_name = JStr(Title(name_parts[1]))]
    ELSE SingleGroup(st, matches, k + 1)

\* for match in matches, two capture groups: the first match sets both names
TwoGroups(st, matches) ==
    IF matches = <<>> THEN st
    ELSE [first_name |-> JStr(Title(matches[1][1])),
          last_name |-> JStr(Title(matches[1][2])),
          by |-> "groups", parts |-> <<>>]

HaveBoth(st) == Truthy(st.first_name) /\ Truthy(st.last_name)

\* the comma_pattern heuristic
CommaRule(st, matches) ==
    IF ~HaveBoth(st) /\ matches # <<>>
    THEN [first_name |-> JStr(Title(matches[1][2])),
          last_name |-> JStr(Title(matches[1][1])),
          by |-> "comma", parts |-> <<>>]
    ELSE st

\* for pattern in self.name_patterns: first_name and last_name after the loop;
\* found.label, .groups, .line, .titled are re.findall of the four patterns
PrimaryPatterns(found) ==
    LET s1 == SingleGroup(NoName, found.label, 1)
        s2 == IF HaveBoth(s1) THEN s1 ELSE TwoGroups(s1, found.groups)
        s3 == IF HaveBoth(s2) THEN s2 ELSE SingleGroup(s2, found.line, 1)
    IN IF HaveBoth(s3) THEN s3 ELSE SingleGroup(s3, found.titled, 1)

\* the heuristics after the loop; found.comma is re.findall of comma_pattern
ExtractPatientNameOcr(found) == CommaRule(PrimaryPatterns(found), found.comma)

TokenSamples ==
    <<<<"j", "o", "h", "n">>,
      <<"S", "M", "I", "T", "H">>,
      <<"S", "m", "i", "t", "h", "1", "2", "3">>,
      <<"I", "D">>,
      <<"J", "o", "n", "e", "s">>,
      <<"p", "e", "r", "s", "o", "n">>,
      <<"D", "O", "B", ":">>,
      <<"N", "u", "m", "b", "e", "r">>,
      <<"1", "2", "3", "4", "5">>,
      <<"M", "c", "7">>>>

RECURSIVE TokenSeqs(_)
\* the token sequences of length 1..n over the samples
TokenSeqs(n) ==
    IF n = 0 THEN {}
    ELSE { <<t>> : t \in Prefix(TokenSamples, MaxTokens) }
         \cup { Append(s, t) : s \in TokenSeqs(n - 1), t \in Prefix(TokenSamples, MaxTokens) }

sMary == <<"M", "a", "r", "y">>
sPoe == <<"P", "o", "e">>
sId == <<"I", "d">>

\* what the text offers to each pattern: the captures after a name label, and
\* at most one match of each other pattern
Findings ==
    { [label |-> l, groups |-> g, line |-> n, titled |-> d, comma |-> c] :
        l \in {<<>>} \cup { <<LabelCapture(s)>> : s \in TokenSeqs(MaxNameLen) }
              \cup { <<LabelCapture(<<t>>), <<sMary, sPoe, sId>>>> :
                        t \in Prefix(TokenSamples, MaxTokens) },
        g \in {<<>>, <<<<sMary, sLee7>>>>},
        n \in {<<>>, <<<<sMary, sId>>>>, <<<<sMary, sPoe>>>>},
        d \in {<<>>, <<<<sAnn, sPoe>>>>},
        c \in {<<>>, <<<<sRoe, sAnn>>>>} }

InitName ==
    /\ f_pc = "called"
    /\ f_arg \in { f \in Findings : \A i \in 1..Len(f.label) : f.label[i] # <<>> }
    /\ f_ret = NoName
    /\ PipelineIdle
    /\ ValidateIdle
    /\ ExtractIdle
    /\ TwiceIdle
    /\ LimiterIdle
    /\ OrdersIdle
    /\ UsersIdle
    /\ CacheIdle

CallExtractPatientNameOcr ==
    /\ f_pc = "called"
    /\ f_ret' = ExtractPatientNameOcr(f_arg)
    /\ f_pc' = "returned"
    /\ UNCHANGED f_arg
    /\ UNCHANGED not_f

NextName == CallExtractPatientNameOcr

SpecName == InitName /\ [][NextName]_vars

ArtifactWords == {<<"p", "e", "r", "s", "o", "n">>, <<"n", "u", "m", "b", "e", "r">>,
                  <<"i", "d">>}

\* the token neither contains a digit nor is person, number or id in any case
CleanToken(tok) ==
    /\ \A i \in 1..Len(tok) : ~IsDigit(tok[i])
    /\ LowerStr(tok) \notin ArtifactWords

\* the length of the longest prefix of tokens made of clean tokens only
LongestCleanPrefix(tokens) ==
    CHOOSE n \in 0..Len(tokens) :
        /\ \A i \in 1..n : CleanToken(tokens[i])
        /\ n < Len(tokens) => ~CleanToken(tokens[n + 1])

RECURSIVE WordsOf(_)
\* the space-separated words of a string
WordsOf(str) ==
    IF \A i \in 1..Len(str) : str[i] # " " THEN <<str>>
    ELSE LET j == CHOOSE i \in 1..Len(str) :
                      str[i] = " " /\ \A h \in 1..(i - 1) : str[h] # " "
         IN <<SubSeq(str, 1, j - 1)>> \o WordsOf(SubSeq(str, j + 1, Len(str)))

\* C16: for a name matched by a single-group pattern the first name is the
\* first token and the last name is the longest prefix of the remaining tokens
\* without a token that contains a digit or equals person, number or id in any
\* case (names compared without regard to letter case); such a last name holds
\* no digit and none of those tokens.
C16_SingleGroupSplit ==
    f_pc = "returned" /\ f_ret.by = "single" =>
        LET rest == Tail(f_ret.parts)
            n == LongestCleanPrefix(rest)
        IN /\ LowerStr(f_ret.first_name.s) = LowerStr(f_ret.parts[1])
           /\ n >= 1
           /\ LowerStr(f_ret.last_name.s) = LowerStr(JoinSpace(SubSeq(rest, 1, n)))
           /\ \A i \in 1..Len(f_ret.last_name.s) : ~IsDigit(f_ret.last_name.s[i])
           /\ \A w \in 1..Len(WordsOf(f_ret.last_name.s)) :
                 LowerStr(WordsOf(f_ret.last_name.s)[w]) \notin ArtifactWords

\* john SMITH ID after the label: John, Smith, the scan having stopped at ID
C16_Witness ==
    /\ f_pc = "returned"
    /\ f_ret.by = "single"
    /\ f_ret.parts = <<<<"j", "o", "h", "n">>, <<"S", "M", "I", "T", "H">>, <<"I", "D">>>>
    /\ f_ret.first_name = JStr(<<"J", "o", "h", "n">>)
    /\ f_ret.last_name = JStr(<<"S", "m", "i", "t", "h">>)

----------------------------------------------------------------------------
(* LLMRateLimiter (app/services/llm_rate_limiter.py) for one model with    *)
(* configured limits, and rate_limited_llm_call run by concurrent tasks of *)
(* one event loop.  A task is suspended only at `await llm_function(...)`: *)
(* the bodies of `async with self.lock` contain no await, so the lock is   *)
(* free whenever a task is scheduled and entering it never suspends.  An   *)
(* action is the code a task runs from one suspension to the next.         *)

Callers == 1..MaxCallers
Estimates == 2..MaxEstimate
Actuals == 1..MaxActual

\* UsageTracker(): both counts 0, last_reset = now
NewTracker == [requests_count |-> 0, tokens_count |-> 0, expired |-> FALSE]

\* _reset_if_needed(tracker, window_seconds)
ResetIfNeeded(tracker) == IF tracker.expired THEN NewTracker ELSE tracker

MinuteAllowsTokensOnly(tracker, estimated_tokens) ==
    ~(tracker.tokens_count + estimated_tokens > TokensPerMinute)

\* the minute checks of _can_make_request, on the tracker after its reset
MinuteAllows(tracker, estimated_tokens) ==
    /\ ~(tracker.requests_count >= RequestsPerMinute)
    /\ ~(tracker.tokens_count + estimated_tokens > TokensPerMinute)

\* the daily checks of _can_make_request, on the tracker after its reset
DailyAllows(tracker, estimated_tokens) ==
    /\ ~(tracker.requests_count >= RequestsPerDay)
    /\ ~(tracker.tokens_count + estimated_tokens > TokensPerDay)

\* requests_count += 1, tokens_count += estimated_tokens
Reserve(tracker, estimated_tokens) ==
    [tracker EXCEPT !.requests_count = @ + 1, !.tokens_count = @ + estimated_tokens]

\* record_actual_usage: tokens_count += token_diff, without a reset check
Adjust(tracker, token_diff) == [tracker EXCEPT !.tokens_count = @ + token_diff]

NothingReserved == [minute |-> 0, daily |-> 0]

InitLimiter ==
    /\ minute_tracker = NewTracker
    /\ daily_tracker = NewTracker
    /\ call_pc = [c \in Callers |-> "idle"]
    /\ call_estimated = [c \in Callers |-> 0]
    /\ call_outcome = [c \in Callers |-> "none"]
    /\ call_reserved = [c \in Callers |-> NothingReserved]
    /\ calls_started = 0
    /\ PipelineIdle
    /\ ValidateIdle
    /\ ExtractIdle
    /\ HelperIdle
    /\ TwiceIdle
    /\ OrdersIdle
    /\ UsersIdle
    /\ CacheIdle

\* a reset of a window forgets what every call had added to it
Forget(reserved, minute_reset, daily_reset) ==
    [c \in Callers |->
        [minute |-> IF minute_reset THEN 0 ELSE reserved[c].minute,
         daily |-> IF daily_reset THEN 0 ELSE reserved[c].daily]]

\* rate_limited_llm_call up to its first suspension: acquire checks and either
\* returns False (the wrapper returns None) or reserves and the LLM call starts
Acquire(c) ==
    /\ call_pc[c] \in {"idle", "done"}
    /\ calls_started < MaxCalls
    /\ calls_started' = calls_started + 1
    /\ \E estimated_tokens \in Estimates :
        LET minute == ResetIfNeeded(minute_tracker)
            daily == ResetIfNeeded(daily_tracker)
        IN
        IF ~MinuteAllows(minute, estimated_tokens)
        THEN /\ minute_tracker' = minute
             /\ UNCHANGED daily_tracker
             /\ call_reserved' = [Forget(call_reserved, minute_tracker.expired, FALSE)
                                     EXCEPT ![c] = NothingReserved]
             /\ call_pc' = [call_pc EXCEPT ![c] = "done"]
             /\ call_outcome' = [call_outcome EXCEPT ![c] = "rate_limited"]
             /\ call_estimated' = [call_estimated EXCEPT ![c] = 0]
        ELSE IF ~DailyAllows(daily, estimated_tokens)
        THEN /\ minute_tracker' = minute
             /\ daily_tracker' = daily
             /\ call_reserved' = [Forget(call_reserved, minute_tracker.expired,
                                         daily_tracker.expired)
                                     EXCEPT ![c] = NothingReserved]
             /\ call_pc' = [call_pc EXCEPT ![c] = "done"]
             /\ call_outcome' = [call_outcome EXCEPT ![c] = "rate_limited"]
             /\ call_estimated' = [call_estimated EXCEPT ![c] = 0]
        ELSE /\ minute_tracker' = Reserve(minute, estimated_tokens)
             /\ daily_tracker' = Reserve(daily, estimated_tokens)
             /\ call_reserved' = [Forget(call_reserved, minute_tracker.expired,
                                         daily_tracker.expired)
                                     EXCEPT ![c] = [minute |-> estimated_tokens,
                                                    daily |-> estimated_tokens]]
             /\ call_pc' = [call_pc EXCEPT ![c] = "in_flight"]
             /\ call_outcome' = [call_outcome EXCEPT ![c] = "none"]
             /\ call_estimated' = [call_estimated EXCEPT ![c] = estimated_tokens]
    /\ UNCHANGED not_r

\* the call of c leaves rate_limited_llm_call; its locals are gone
Ends(c, outcome) ==
    /\ call_pc' = [call_pc EXCEPT ![c] = "done"]
    /\ call_outcome' = [call_outcome EXCEPT ![c] = outcome]
    /\ call_estimated' = [call_estimated EXCEPT ![c] = 0]

\* llm_function returns a result with usage.total_tokens: the usage is
\* recorded and the result returned
LlmReturnsWithUsage(c) ==
    /\ call_pc[c] = "in_flight"
    /\ \E actual_tokens \in Actuals :
          /\ minute_tracker' = Adjust(minute_tracker, actual_tokens - call_estimated[c])
          /\ daily_tracker' = Adjust(daily_tracker, actual_tokens - call_estimated[c])
    /\ call_reserved' = [call_reserved EXCEPT ![c] = NothingReserved]
    /\ Ends(c, "result")
    /\ UNCHANGED calls_started
    /\ UNCHANGED not_r

\* llm_function returns a result without usage: return result
LlmReturnsWithoutUsage(c) ==
    /\ call_pc[c] = "in_flight"
    /\ Ends(c, "result")
    /\ call_reserved' = [call_reserved EXCEPT ![c] = NothingReserved]
    /\ UNCHANGED <<minute_tracker, daily_tracker, calls_started>>
    /\ UNCHANGED not_r

\* llm_function raises an Exception: record_actual_usage(model, 0,
\* estimated_tokens), then raise
LlmRaises(c) ==
    /\ call_pc[c] = "in_flight"
    /\ minute_tracker' = Adjust(minute_tracker, 0 - call_estimated[c])
    /\ daily_tracker' = Adjust(daily_tracker, 0 - call_estimated[c])
    /\ call_reserved' = [call_reserved EXCEPT
                            ![c] = [minute |-> @.minute - call_estimated[c],
                                    daily |-> @.daily - call_estimated[c]]]
    /\ Ends(c, "raised")
    /\ UNCHANGED calls_started
    /\ UNCHANGED not_r

\* the awaiting task is cancelled: CancelledError is a BaseException, which
\* `except Exception` does not catch, so it leaves rate_limited_llm_call at once
CallCancelled(c) ==
    /\ call_pc[c] = "in_flight"
    /\ Ends(c, "cancelled")
    /\ UNCHANGED <<minute_tracker, daily_tracker, call_reserved, calls_started>>
    /\ UNCHANGED not_r

\* more than 60 seconds have passed since minute_tracker.last_reset
MinuteWindowPasses ==
    /\ ~minute_tracker.expired
    /\ minute_tracker' = [minute_tracker EXCEPT !.expired = TRUE]
    /\ UNCHANGED <<daily_tracker, call_pc, call_estimated, call_outcome,
                   call_reserved, calls_started>>
    /\ UNCHANGED not_r

\* more than 24 hours have passed since daily_tracker.last_reset
DailyWindowPasses ==
    /\ ~daily_tracker.expired
    /\ daily_tracker' = [daily_tracker EXCEPT !.expired = TRUE]
    /\ UNCHANGED <<minute_tracker, call_pc, call_estimated, call_outcome,
                   call_reserved, calls_started>>
    /\ UNCHANGED not_r

NextLimiter ==
    \/ \E c \in Callers : Acquire(c)
    \/ \E c \in Callers : LlmReturnsWithUsage(c)
    \/ \E c \in Callers : LlmReturnsWithoutUsage(c)
    \/ \E c \in Callers : LlmRaises(c)
    \/ \E c \in Callers : CallCancelled(c)
    \/ MinuteWindowPasses
    \/ DailyWindowPasses

SpecLimiter == InitLimiter /\ [][NextLimiter]_vars

EndedWithoutResult(c) ==
    call_pc[c] = "done" /\ call_outcome[c] \in {"raised", "cancelled"}

\* C17: when a call through rate_limited_llm_call ends without a result, by an
\* exception of the LLM function or by cancellation in flight, the reserved
\* estimate is released: the call leaves nothing in the minute and the daily
\* token counters.
C17_ReservationReleased ==
    \A c \in Callers :
        EndedWithoutResult(c) => call_reserved[c] = NothingReserved

\* C18: acquire returns True only if after its reservation neither window's
\* requests_count exceeds its request limit nor its tokens_count its token
\* limit, whatever the interleaving of the callers.
C18_GrantWithinLimits ==
    [][\A c \in Callers :
          call_pc[c] # "in_flight" /\ call_pc'[c] = "in_flight" =>
              /\ minute_tracker'.requests_count <= RequestsPerMinute
              /\ minute_tracker'.tokens_count <= TokensPerMinute
              /\ daily_tracker'.requests_count <= RequestsPerDay
              /\ daily_tracker'.tokens_count <= TokensPerDay]_vars

\* two callers asked at once, one holds a grant, the other did not fit
C18_Witness ==
    \E c \in Callers, d \in Callers :
        /\ call_pc[c] = "in_flight"
        /\ call_pc[d] = "done" /\ call_outcome[d] = "rate_limited"
        /\ calls_started = 2
        /\ minute_tracker.requests_count = RequestsPerMinute
        /\ daily_tracker.requests_count < RequestsPerDay

----------------------------------------------------------------------------
(* The order endpoints (app/routers/orders.py) over the orders table       *)
(* (app/models/order.py).  The handlers contain no await, so each request  *)
(* is handled without interleaving; requests are authenticated, valid      *)
(* against their schema and within the request-rate limit.                 *)

OrderNumberSamples == <<"ORD-1", "ORD-2", "ORD-3", "ORD-4">>
OrderNumbers == Prefix(OrderNumberSamples, MaxOrderNumbers)
OrderIds == 1..MaxOrderId

\* a field the OrderUpdate body does not set, and one it sets to null
Unset == "<unset>"
Null == "<null>"

NoRequest == [op |-> "none", order_id |-> 0, order_number |-> "", status |-> ""]

\* db.query(Order).filter(Order.order_number == order_number).first()
ByNumber(rows, order_number) == { o \in rows : o.order_number = order_number }
\* db.query(Order).filter(Order.id == order_id).first()
ById(rows, order_id) == { o \in rows : o.id = order_id }

\* the constraints of the table: id is the primary key, order_number is
\* unique and not null; db.commit() raises when they do not hold
TableAccepts(rows) ==
    /\ \A a \in rows, b \in rows : a.id = b.id => a = b
    /\ \A a \in rows, b \in rows : a.order_number = b.order_number => a = b
    /\ \A a \in rows : a.order_number # Null

NumberTakenNever(rows, order_number) == FALSE

\* existing_order of create_order is not None
NumberTaken(rows, order_number) == ByNumber(rows, order_number) # {}

InitOrders ==
    /\ orders = {}
    /\ orders_before = {}
    /\ order_request = NoRequest
    /\ order_status = 0
    /\ PipelineIdle
    /\ ValidateIdle
    /\ ExtractIdle
    /\ HelperIdle
    /\ TwiceIdle
    /\ LimiterIdle
    /\ UsersIdle
    /\ CacheIdle

\* POST /: create_order
CreateOrder ==
    \E order_number \in OrderNumbers, status \in {"pending", "shipped"} :
    \E new_id \in OrderIds :
        /\ ById(orders, new_id) = {}
        /\ order_request' = [op |-> "create", order_id |-> 0,
                             order_number |-> order_number, status |-> status]
        /\ orders_before' = orders
        /\ LET db_order == [id |-> new_id, order_number |-> order_number,
                            status |-> status]
           IN IF NumberTaken(orders, order_number)
              THEN order_status' = 400 /\ UNCHANGED orders
              ELSE IF ~TableAccepts(orders \cup {db_order})
              THEN order_status' = 500 /\ UNCHANGED orders
              ELSE order_status' = 201 /\ orders' = orders \cup {db_order}
        /\ UNCHANGED not_o

\* PUT /{order_id}: update_order
UpdateOrder ==
    \E order_id \in OrderIds, order_number \in OrderNumbers \cup {Unset, Null},
       status \in {Unset, "pending", "shipped"} :
        /\ order_request' = [op |-> "update", order_id |-> order_id,
                             order_number |-> order_number, status |-> status]
        /\ orders_before' = orders
        /\ IF ById(orders, order_id) = {}
           THEN order_status' = 404 /\ UNCHANGED orders
           ELSE LET db_order == CHOOSE o \in orders : o.id = order_id
                    updated == [id |-> db_order.id,
                                order_number |-> IF order_number = Unset
                                                 THEN db_order.order_number
                                                 ELSE order_number,
                                status |-> IF status = Unset
                                           THEN db_order.status ELSE status]
                    rows == (orders \ {db_order}) \cup {updated}
                IN IF /\ order_number \notin {Unset, Null}
                      /\ order_number # db_order.order_number
                      /\ \E o \in ByNumber(orders, order_number) : o.id # order_id
                   THEN order_status' = 400 /\ UNCHANGED orders
                   ELSE IF ~TableAccepts(rows)
                   THEN order_status' = 500 /\ UNCHANGED orders
                   ELSE order_status' = 200 /\ orders' = rows
        /\ UNCHANGED not_o

\* DELETE /{order_id}: delete_order
DeleteOrder ==
    \E order_id \in OrderIds :
        /\ order_request' = [op |-> "delete", order_id |-> order_id,
                             order_number |-> Unset, status |-> Unset]
        /\ orders_before' = orders
        /\ IF ById(orders, order_id) = {}
           THEN order_status' = 404 /\ UNCHANGED orders
           ELSE order_status' = 200 /\ orders' = orders \ ById(orders, order_id)
        /\ UNCHANGED not_o

NextOrders == CreateOrder \/ UpdateOrder \/ DeleteOrder

SpecOrders == InitOrders /\ [][NextOrders]_vars

\* C19: after any sequence of create, update and delete requests no two
\* stored orders have the same order_number, and a create whose order_number
\* already exists is answered 400 and leaves the stored orders unchanged.
C19_OrderNumbersUnique ==
    /\ \A a \in orders, b \in orders : a.id # b.id => a.order_number # b.order_number
    /\ /\ order_request.op = "create"
       /\ \E o \in orders_before : o.order_number = order_request.order_number
       => order_status = 400 /\ orders = orders_before

\* with every order number in use, one more create of a used number was refused
C19_Witness ==
    /\ order_request.op = "create"
    /\ order_status = 400
    /\ Cardinality(orders) = MaxOrderNumbers
    /\ orders = orders_before

----------------------------------------------------------------------------
(* Login (app/routers/auth.py, login) over the users table as              *)
(* UserService (app/services/user_service.py) reads and writes it.         *)
(* A password hash is modelled by the password it verifies.                *)

UserNameSamples == <<"loginuser", "nurse", "admin">>
UserNames == Prefix(UserNameSamples, MaxUsers)
PasswordSamples == <<"LoginPass123!", "WrongPassword123!", "TestPass123!">>
Passwords == Prefix(PasswordSamples, MaxPasswords)

\* the usernames that have a row
Registered == DOMAIN users

\* create_user: a new row is active
CreateUser ==
    \E username \in UserNames, password \in Passwords :
        /\ username \notin Registered
        /\ users' = [u \in Registered \cup {username} |->
                        IF u = username
                        THEN [hashed_password |-> password, is_active |-> TRUE]
                        ELSE users[u]]
        /\ UNCHANGED <<login_data, login_response>>
        /\ UNCHANGED not_u

\* deactivate_user
DeactivateUser ==
    \E username \in Registered :
        /\ users' = [users EXCEPT ![username].is_active = FALSE]
        /\ UNCHANGED <<login_data, login_response>>
        /\ UNCHANGED not_u

\* activate_user
ActivateUser ==
    \E username \in Registered :
        /\ users' = [users EXCEPT ![username].is_active = TRUE]
        /\ UNCHANGED <<login_data, login_response>>
        /\ UNCHANGED not_u

\* authenticate_user: the user found, None (user = ""), or the detail of
\* the HTTPException 401 it raises
AuthenticateUser(data) ==
    IF data.username_or_email \notin Registered
    THEN [user |-> "", raised |-> ""]
    ELSE IF ~users[data.username_or_email].is_active
    THEN [user |-> "", raised |-> "Account is deactivated"]
    ELSE IF users[data.username_or_email].hashed_password # data.password
    THEN [user |-> "", raised |-> ""]
    ELSE [user |-> data.username_or_email, raised |-> ""]

InitLogin ==
    /\ users = <<>>
    /\ login_data = [username_or_email |-> "", password |-> ""]
    /\ login_response = [status_code |-> 0, detail |-> ""]
    /\ PipelineIdle
    /\ ValidateIdle
    /\ ExtractIdle
    /\ HelperIdle
    /\ TwiceIdle
    /\ LimiterIdle
    /\ OrdersIdle
    /\ CacheIdle

\* POST /login
Login ==
    \E username_or_email \in UserNames, password \in Passwords :
        LET data == [username_or_email |-> username_or_email, password |-> password]
            found == AuthenticateUser(data)
        IN /\ login_data' = data
           /\ login_response' =
                 IF found.raised # ""
                 THEN [status_code |-> 401, detail |-> found.raised]
                 ELSE IF found.user = ""
                 THEN [status_code |-> 401,
                       detail |-> "Invalid username/email or password"]
                 ELSE [status_code |-> 200, detail |-> found.user]
           /\ UNCHANGED users
           /\ UNCHANGED not_u

NextLogin == CreateUser \/ DeactivateUser \/ ActivateUser \/ Login

SpecLogin == InitLogin /\ [][NextLogin]_vars

\* a login request has been answered, and not with a token
LoginFailed == login_response.status_code \notin {0, 200}

\* C20: every login attempt that does not succeed is answered 401 with
\* detail "Invalid username/email or password", whatever the account's state.
C20_FailedLoginsAlike ==
    LoginFailed =>
        login_response = [status_code |-> 401,
                          detail |-> "Invalid username/email or password"]

----------------------------------------------------------------------------
(* Creating an order with a date of birth: the OrderCreate schema          *)
(* (app/schemas/order.py) validates the body, then create_order runs.      *)

\* patient_date_of_birth left out of the body, or null
DobNone == <<"N", "o", "n", "e">>

DobSamples ==
    <<<<"1", "3", "/", "4", "5", "/", "1", "9", "9", "0">>,
      <<"1", "9", "8", "0", "-", "0", "1", "-", "1", "5">>,
      <<"i", "n", "v", "a", "l", "i", "d", "-", "d", "a", "t", "e">>,
      <<"2", "0", "2", "5", "-", "0", "1", "-", "0", "1">>,
      <<"1", "/", "1", "/", "2", "0", "0", "0">>,
      DobNone,
      <<"1", "2", "/", "2", "5", "/", "1", "9", "9", "0">>,
      <<"1", "9", "8", "0", "-", "0", "1", "-", "1", "5", "\n">>,
      <<"1", "9", "8", "0", "/", "0", "1", "/", "1", "5">>>>
Dobs == Prefix(DobSamples, MaxDobs)

AllDigits(s) == \A i \in 1..Len(s) : IsDigit(s[i])

\* what a pattern ending in $ is matched against: $ also matches just
\* before a final newline
BeforeFinalNewline(v) ==
    IF v # <<>> /\ v[Len(v)] = "\n" THEN SubSeq(v, 1, Len(v) - 1) ELSE v

\* re.match(r'^\d{4}-\d{2}-\d{2}$', v)
MatchesIso(v) ==
    LET s == BeforeFinalNewline(v) IN
    /\ Len(s) = 10
    /\ s[5] = "-" /\ s[8] = "-"
    /\ \A i \in {1, 2, 3, 4, 6, 7, 9, 10} : IsDigit(s[i])

\* re.match(r'^\d{lo,2}/\d{lo,2}/\d{4}$', v)
MatchesSlashed(v, lo) ==
    LET p == SplitSlash(BeforeFinalNewline(v)) IN
    /\ Len(p) = 3
    /\ Len(p[1]) \in lo..2 /\ Len(p[2]) \in lo..2 /\ Len(p[3]) = 4
    /\ \A i \in 1..3 : AllDigits(p[i])

\* OrderBase.validate_date_of_birth does not raise
ValidateDateOfBirth(v) ==
    \/ v = DobNone
    \/ MatchesIso(v)
    \/ MatchesSlashed(v, 2)
    \/ MatchesSlashed(v, 1)

InitOrderDob ==
    /\ orders = {}
    /\ orders_before = {}
    /\ order_request = [op |-> "none", order_id |-> 0, order_number |-> "",
                        status |-> "", patient_date_of_birth |-> DobNone]
    /\ order_status = 0
    /\ PipelineIdle
    /\ ValidateIdle
    /\ ExtractIdle
    /\ HelperIdle
    /\ TwiceIdle
    /\ LimiterIdle
    /\ UsersIdle
    /\ CacheIdle

\* POST / with a body that sets order_number, order_type and
\* patient_date_of_birth: schema validation, then create_order
PostOrder ==
    \E order_number \in OrderNumbers, dob \in Dobs, new_id \in OrderIds :
        /\ ById(orders, new_id) = {}
        /\ order_request' = [op |-> "create", order_id |-> 0,
                             order_number |-> order_number, status |-> "pending",
                             patient_date_of_birth |-> dob]
        /\ orders_before' = orders
        /\ LET db_order == [id |-> new_id, order_number |-> order_number,
                            status |-> "pending", patient_date_of_birth |-> dob]
           IN IF ~ValidateDateOfBirth(dob)
              THEN order_status' = 422 /\ UNCHANGED orders
              ELSE IF NumberTaken(orders, order_number)
              THEN order_status' = 400 /\ UNCHANGED orders
              ELSE order_status' = 201 /\ orders' = orders \cup {db_order}
        /\ UNCHANGED not_o

NextOrderDob == PostOrder

SpecOrderDob == InitOrderDob /\ [][NextOrderDob]_vars

\* a date of birth the claim calls not plausible: not year-month-day or
\* month/day/year in integers, month above 12, day above 31, or not before
\* 2025-01-01
ImplausibleDob(v) ==
    LET p == SplitSlash(NormalizeDate(v))
        iso == Len(p) = 3 /\ Len(p[1]) = 4
        y == IF iso THEN p[1] ELSE p[3]
        m == IF iso THEN p[2] ELSE p[1]
        d == IF iso THEN p[3] ELSE p[2]
    IN \/ Len(p) # 3
       \/ \E i \in 1..3 : IntRaises(p[i])
       \/ ~IntegerIn(m, 1, 12)
       \/ ~IntegerIn(d, 1, 31)
       \/ IntOf(y) >= 2025

\* C21: creating an order whose patient_date_of_birth is not a plausible
\* date of birth is answered 422 and stores no order.
C21_ImplausibleDobRejected ==
    order_request.op = "create" /\ ImplausibleDob(order_request.patient_date_of_birth)
        /\ order_request.patient_date_of_birth # DobNone
    => order_status = 422 /\ orders = orders_before

----------------------------------------------------------------------------
(* The escalation gate of process_document *)

AiOn == UseAiForThisCall /\ enable_ai

\* the quality value as the spec words it: the summary's data_quality_score
\* where validation produced one, else the confidence held at that point
QualityOf(summary, confidence) ==
    IF summary # NoSummary /\ summary.overall_validation.data_quality_score.t = "num"
    THEN summary.overall_validation.data_quality_score.n
    ELSE confidence

\* C22: with AI permitted and enabled, text reanalysis is attempted exactly
\* when quality < 0.7, quality being the validation summary's
\* data_quality_score if there is one and else the current confidence; with
\* quality at 0.7 or more neither text nor vision reanalysis is attempted.
C22_TextGateOnQuality ==
    /\ [][pc = "Scored" /\ pc' = "Validated" =>
              data_quality_score' = QualityOf(validation_summary', final_confidence')]_vars
    /\ [](attempts.text > 0 => AiOn /\ data_quality_score < 70)
    /\ [](attempts.vision > 0 => AiOn /\ data_quality_score < 70)
    /\ [](AiOn /\ StageRank(pc) > 3 /\ (pc = "Done" => response.success) =>
              (attempts.text = 1 <=> data_quality_score < 70))

\* the pattern result scored 0.8 or more, the summary said 0.65, and text
\* reanalysis was attempted
C22_Witness ==
    /\ Succeeded
    /\ AiOn
    /\ CalculateConfidence(ocr_result) >= 80
    /\ data_quality_score = 65
    /\ attempts.text = 1

\* C23: with AI permitted and enabled, vision reanalysis is attempted
\* whenever quality is still below 0.6 once the text-reanalysis step has
\* finished, also when the text-reanalysis result was adopted.
C23_VisionWheneverBelowSixty ==
    Succeeded /\ AiOn /\ attempts.text = 1 /\ data_quality_score < 60
        => attempts.vision = 1

\* a step that called _ai_text_analysis or _ai_vision_analysis and went on
ReanalysisStep ==
    /\ attempts'.text > attempts.text \/ attempts'.vision > attempts.vision
    /\ pc' # "Done"

----------------------------------------------------------------------------
(* The text _extract_text_from_pdf returns *)

\* C25: the text returned by _extract_text_from_pdf is exactly the text
\* produced by the backend named in the returned method; nothing accumulated
\* by a backend that was tried earlier and failed is in it.
C25_TextIsOfReturnedBackend ==
    e_pc = "returned" =>
        \A i \in 1..Len(e_ret.text) : e_ret.text[i].src = e_ret.method

----------------------------------------------------------------------------
(* The 'Lastname, Firstname' heuristic of _extract_patient_name_ocr *)

\* C26: the 'Lastname, Firstname' heuristic determines the returned name only
\* when the primary patterns produced nothing; a name value that a primary
\* pattern produced is not replaced by the heuristic.
C26_HeuristicOnlyWhenNothing ==
    f_pc = "returned" =>
        LET primary == PrimaryPatterns(f_arg) IN
        primary.first_name # JNull \/ primary.last_name # JNull =>
            /\ f_ret.first_name = primary.first_name
            /\ f_ret.last_name = primary.last_name

----------------------------------------------------------------------------
(* The validation summary of a successful result *)

\* the candidate the returned patient_info was derived from: the reanalysis
\* result where one was adopted, else the pattern-extracted fields
CandidateReturned ==
    IF result_source \in {"text", "vision"} THEN response.patient_info ELSE ocr_result

\* summary is what validating info can produce
SummaryOf(summary, info) ==
    \E resp \in ValResponses :
        LET v == AiValidateExtractedData(TRUE, info, resp) IN
        ~v.none /\ v.validation_summary = summary

\* C27: in every successful result that carries a validation summary, the
\* summary was produced by validating the candidate that patient_info was
\* derived from, and every CorrectionApplied record in it has a corrected
\* value equal to the returned patient_info's value for that field.
C27_SummaryDescribesReturned ==
    Succeeded /\ response.ai_validation # NoSummary =>
        /\ SummaryOf(response.ai_validation, CandidateReturned)
        /\ \A i \in 1..Len(response.ai_validation.corrections_applied) :
              LET c == response.ai_validation.corrections_applied[i] IN
              response.patient_info[c.field] = c.corrected

\* C28: in every reachable state of the limiter, under any interleaving of
\* acquire, record_actual_usage and window resets, every tracker's
\* requests_count and tokens_count is greater than or equal to 0.
C28_CountersNonNegative ==
    /\ minute_tracker.requests_count >= 0
    /\ minute_tracker.tokens_count >= 0
    /\ daily_tracker.requests_count >= 0
    /\ daily_tracker.tokens_count >= 0

----------------------------------------------------------------------------
(* DocumentProcessingCache (app/services/cache_service.py) for one          *)
(* cache_key: the memory entry and the pickle file in cache_dir.  Results   *)
(* are numbered in the order set_processing_result stores them.             *)

\* no entry under the key: value 0 stands for None
NoEntry == [value |-> 0, time |-> 0]

\* InMemoryCache._is_expired: datetime.now() > cache_entry['expires_at']
IsExpired(entry, now) == now > entry.time

\* file_age < self.default_ttl, file_age being now - mtime
FileFresh(file, now) == now - file.time < DefaultTtl

\* InMemoryCache.set with the default ttl: the entry, time being expires_at
MemoryEntry(value, now) == [value |-> value, time |-> now + DefaultTtl]

InitCache ==
    /\ cache_clock = 0
    /\ memory_cache = NoEntry
    /\ cache_file = NoEntry
    /\ stored_at = <<>>
    /\ cache_got = [value |-> 0, at |-> 0, layer |-> "none"]
    /\ PipelineIdle
    /\ ValidateIdle
    /\ ExtractIdle
    /\ HelperIdle
    /\ TwiceIdle
    /\ LimiterIdle
    /\ OrdersIdle
    /\ UsersIdle

\* set_processing_result(file_content, processing_params, result)
SetProcessingResult ==
    /\ Len(stored_at) < MaxCacheSets
    /\ LET result == Len(stored_at) + 1 IN
        /\ memory_cache' = MemoryEntry(result, cache_clock)
        /\ cache_file' = [value |-> result, time |-> cache_clock]
        /\ stored_at' = Append(stored_at, cache_clock)
    /\ UNCHANGED <<cache_clock, cache_got>>
    /\ UNCHANGED not_c

\* get_processing_result(file_content, processing_params)
GetProcessingResult ==
    /\ IF memory_cache # NoEntry /\ ~IsExpired(memory_cache, cache_clock)
       THEN /\ cache_got' = [value |-> memory_cache.value, at |-> cache_clock,
                             layer |-> "memory"]
            /\ UNCHANGED <<memory_cache, cache_file>>
       ELSE IF cache_file # NoEntry /\ FileFresh(cache_file, cache_clock)
       THEN /\ memory_cache' = MemoryEntry(cache_file.value, cache_clock)
            /\ cache_got' = [value |-> cache_file.value, at |-> cache_clock,
                             layer |-> "disk"]
            /\ UNCHANGED cache_file
       ELSE /\ memory_cache' = NoEntry
            /\ cache_file' = NoEntry
            /\ cache_got' = [value |-> 0, at |-> cache_clock, layer |-> "miss"]
    /\ UNCHANGED <<cache_clock, stored_at>>
    /\ UNCHANGED not_c

\* DocumentProcessingCache.__init__ in a new process over the same cache_dir:
\* the memory cache starts empty, the files are still there
NewProcess ==
    /\ memory_cache # NoEntry
    /\ memory_cache' = NoEntry
    /\ UNCHANGED <<cache_clock, cache_file, stored_at, cache_got>>
    /\ UNCHANGED not_c

\* time passes
CacheTick ==
    /\ cache_clock < MaxCacheClock
    /\ cache_clock' = cache_clock + 1
    /\ UNCHANGED <<memory_cache, cache_file, stored_at, cache_got>>
    /\ UNCHANGED not_c

NextCache == SetProcessingResult \/ GetProcessingResult \/ NewProcess \/ CacheTick

SpecCache == InitCache /\ [][NextCache]_vars

\* C29: get_processing_result never returns a result that
\* set_processing_result stored more than default_ttl ago, whichever layer
\* serves the hit and whatever gets happened in between.
C29_NoResultOlderThanTtl ==
    cache_got.value # 0 => cache_got.at - stored_at[cache_got.value] <= DefaultTtl

----------------------------------------------------------------------------
(* Calls of the reasoning service in one run *)

ServiceCalls == llm_calls.validate + llm_calls.text + llm_calls.vision

\* C30: one run of process_document makes at most four reasoning-service
\* calls (validation at most twice, text reanalysis at most once, vision
\* reanalysis at most once), and none when AI is not permitted for the call
\* or the capability is disabled.
C30_AtMostFourServiceCalls ==
    /\ llm_calls.validate <= 2
    /\ llm_calls.text <= 1
    /\ llm_calls.vision <= 1
    /\ ServiceCalls <= 4
    /\ use_ai = "false" \/ ~enable_ai => ServiceCalls = 0

\* a run that called the service four times
C30_Witness ==
    /\ Succeeded
    /\ ServiceCalls = 4
    /\ use_ai = "none"

====
